---- MODULE Spec2Model ----
(***************************************************************************)
(* Verification model of the B-hyve Home Assistant integration:            *)
(*   - pybhyve/websocket.py  OrbitWebsocket (connect, heartbeat, retry)    *)
(*   - pybhyve/client.py     Client.login / stop / _async_ws_handler       *)
(*   - coordinator.py        BHyveDataUpdateCoordinator (poll + merge)     *)
(*   - sensor.py             BHyveSensor (views over the snapshot)         *)
(*   - valve.py              BHyveZoneValve._on_ws_data                    *)
(*   - switch.py, binary_sensor.py, config_flow.py, util.py,               *)
(*     python_scripts/bhyve_next_watering.py                               *)
(*   - __init__.py           async_update_callback, the entity event queue *)
(*     and the refetch debounce of the rain delay switch                   *)
(* The specifications of the module share its variables and InitAll.       *)
(***************************************************************************)
EXTENDS Integers, Sequences, FiniteSets, TLC

VARIABLES
    \* ---- Client / OrbitWebsocket ----
    token,            \* Client._token ("none" = None)
    hasCallback,      \* Client._async_callback is configured
    wsCreated,        \* Client._websocket is not None
    wsToken,          \* OrbitWebsocket._token
    wsState,          \* OrbitWebsocket._state ("none" = None)
    ws,               \* OrbitWebsocket._ws: index into conns, 0 = None
    conns,            \* every connection ever opened by ws_connect
    tasks,            \* running() coroutines
    reconnectTimers,  \* pending loop.call_later(RECONNECT_DELAY, start)
    hbTimer,          \* pending _heartbeat_cb: seconds left, -1 = none
    pingTasks,        \* created, not yet run, _ping() tasks
    readyQ,           \* event loop FIFO of ensure_future'd callbacks
    rxLog,            \* TEXT/PING/PONG messages returned by receive()
    delivered,        \* payloads the user callback was invoked with
    idle,             \* seconds since the heartbeat countdown restarted
    stopCalled,       \* OrbitWebsocket.stop() has been called
    \* ---- Client REST cache ----
    clientDevices,    \* Client._devices, [] until the first fetch
    clientPrograms,   \* Client._timer_programs
    fetchedDevices,   \* the device list as the API last delivered it
    fetchedPrograms,  \* the program list as the API last delivered it
    devicesShared,    \* the snapshot's device dicts are the objects of
                      \* Client._devices
    \* ---- BHyveDataUpdateCoordinator ----
    data,             \* coordinator.data; the empty dict stands for None
    pollPc,           \* position of _async_update_data
    pollDevices,      \* devices: the list client.devices returned
    pollIdx,          \* index of the device the loop of line 68 is at
    pollData,         \* data["devices"] being built
    pollOutcomes,     \* per polled device: what its fetches yielded
    pollResult,       \* outcome of the last finished poll
    lastPollData,     \* snapshot returned by the last successful poll
    patchLog,         \* events handled since that poll completed
    notified,         \* what the latest handler or poll passed to
                      \* async_set_updated_data, one entry per call
    handled,          \* websocket events handed to the coordinator so far
    \* ---- BHyveSensor ----
    lastRead,         \* what native_value returned, when the latest
                      \* operation was a read of it
    \* ---- BHyveZoneValve ----
    valveZoneId,      \* _zone_id; NoneVal before the valve is constructed
    valveClosed,      \* _attr_is_closed
    valveAttrs,       \* _attrs, the keys that events write
    valvePreset,      \* _manual_preset_runtime
    valveEvent,       \* the event _on_ws_data was last called with
    valveWasClosed,   \* _attr_is_closed when that call began
    valveRaised,      \* that call ended in an exception
    valveCall,        \* the method of the valve that ran last
    valveReported,    \* manual preset seconds last reported to the valve:
                      \* by the device at construction or by an event since
    valveSent,        \* what that method passed to client.send_message,
                      \* one entry per call
    \* ---- BHyveRainDelaySwitch ----
    rainIsOn,         \* _is_on
    rainAttrs,        \* _attrs
    rainCall,         \* the method of the switch that ran last, "" before
                      \* the switch is constructed
    rainEvent,        \* the event _on_ws_data was last called with
    rainRaised,       \* that call ended in an exception
    rainSent,         \* what that call passed to client.send_message
    rainReported,     \* the rain delay last reported by _setup or an event
    rainLocal,        \* async_turn_on or async_turn_off has run
    \* ---- BHyveProgramSwitch ----
    progProgram,      \* _program; NoneVal before the switch is constructed
    progId,           \* _program_id
    progCall,         \* the method of the switch that ran last
    progEvent,        \* the event _on_ws_data was last called with
    progSent,         \* the update_program calls of that method
    progReported,     \* the program given at construction or by the latest
                      \* program_changed event that carried one
    progLocal,        \* async_turn_on or async_turn_off has run since
    \* ---- ConfigFlow ----
    flowUsername,     \* _reauth_username of the flow in progress: None or
                      \* a string
    flowData,         \* self.data of the flow in progress
    flowEntries,      \* hass.config_entries: unique id -> config entry
    flowReloads,      \* calls of hass.config_entries.async_reload so far
    flowCall,         \* the method that ran last, with its input and the
                      \* outcome its login had
    flowResult,       \* what that method returned
    flowCalls,        \* calls made so far
    \* ---- util.py and python_scripts: pure functions ----
    utilCall,         \* the function called last, with its arguments
    utilResult,       \* what that call returned or raised
    \* ---- Client._refresh_devices and its callers ----
    thrNow,           \* time.time(), in seconds
    thrLastPoll,      \* Client._last_poll_devices
    thrCache,         \* Client._devices: number of the request whose
                      \* response it holds, 0 = the initial []
    thrCallers,       \* per caller: where it is in _refresh_devices
    thrRequests,      \* every device-list request issued so far
    thrLastCall,      \* the call that began or ended last
    \* ---- Client: the three caches and their callers, one call at a time ----
    cliNow,           \* time.time(), in seconds
    cliDevices,       \* Client._devices: the time of the request whose
                      \* response it holds, 0 = the initial []
    cliLastPollDevices,   \* Client._last_poll_devices
    cliPrograms,      \* Client._timer_programs, likewise
    cliLastPollPrograms,  \* Client._last_poll_programs
    cliHistories,     \* Client._device_histories: device id -> response
    cliLastPollHistories, \* Client._last_poll_device_histories
    cliLastCall,      \* the call made last and what it gave
    \* ---- BHyveDeviceEntity: the dispatcher callback and async_update ----
    entKind,          \* the class of the entity, "" before it is made
    entAvailable,     \* _available
    entQueue,         \* _ws_unprocessed_events
    entScheduled,     \* updates asked for by async_schedule_update_ha_state
    entArrived,       \* every event dispatched to the entity, in order
    entProcessed,     \* every event passed to _on_ws_data, in order
    entLast,          \* what ran last, and the error it raised
    \* ---- the zone valves of one device ----
    zvClosed,         \* per station: _attr_is_closed of its valve
    zvQueue,          \* per station: _ws_unprocessed_events of its valve
    zvStream,         \* the events dispatched to the device so far
    zvCommanded,      \* start_watering or stop_watering was called
    zvLast,           \* what ran last
    \* ---- BHyveRainDelaySwitch: the delayed refetch ----
    rdNow,            \* the time, in seconds
    rdCb,             \* _update_device_cb: the timer whose cancel it holds, 0 = None
    rdTimers,         \* the pending async_call_later timers: number -> due time
    rdRefetching,     \* the timers whose _update_device awaits get_device
    rdLog             \* timers scheduled, fired and refetches ended, in order

wsVars == <<token, hasCallback, wsCreated, wsToken, wsState, ws, conns, tasks,
            reconnectTimers, hbTimer, pingTasks, readyQ, rxLog, delivered, idle,
            stopCalled>>

coordVars == <<clientDevices, clientPrograms, fetchedDevices, fetchedPrograms,
               devicesShared, data, pollPc, pollDevices, pollIdx, pollData, pollOutcomes,
               pollResult, lastPollData, patchLog, notified, handled>>

sensorVars == <<lastRead>>

valveVars == <<valveZoneId, valveClosed, valveAttrs, valvePreset, valveEvent,
               valveWasClosed, valveRaised, valveCall, valveReported, valveSent>>

switchVars == <<rainIsOn, rainAttrs, rainCall, rainEvent, rainRaised, rainSent, rainReported,
                rainLocal, progProgram, progId, progCall, progEvent, progSent, progReported, progLocal>>

flowVars == <<flowUsername, flowData, flowEntries, flowReloads, flowCall, flowResult,
              flowCalls>>

utilVars == <<utilCall, utilResult>>

thrVars == <<thrNow, thrLastPoll, thrCache, thrCallers, thrRequests, thrLastCall>>

cliVars == <<cliNow, cliDevices, cliLastPollDevices, cliPrograms, cliLastPollPrograms,
             cliHistories, cliLastPollHistories, cliLastCall>>

\* the variables of the specifications that follow SpecThr
entVars == <<entKind, entAvailable, entQueue, entScheduled, entArrived, entProcessed,
             entLast>>

zvVars == <<zvClosed, zvQueue, zvStream, zvCommanded, zvLast>>

rdVars == <<rdNow, rdCb, rdTimers, rdRefetching, rdLog>>

restVars == <<cliVars, entVars, zvVars, rdVars>>

vars == <<wsVars, coordVars, sensorVars, valveVars, switchVars, flowVars, utilVars, thrVars,
         restVars>>

(***************************************************************************)
(* Bounds of the websocket model.                                          *)
(***************************************************************************)
MaxConns == 2
MaxFrames == 2
MaxTasks == 2
TickQuantum == 5

(***************************************************************************)
(* websocket.py constants.                                                 *)
(***************************************************************************)
STATE_STARTING == "starting"
STATE_RUNNING == "running"
STATE_STOPPED == "stopped"
RECONNECT_DELAY == 5
Heartbeat == 25

Tokens == {"tokA", "tokB"}
Payloads == {"p1", "p2"}
TaskIds == 1..MaxTasks

NoFrame == [event |-> "none"]
PingFrame == [event |-> "ping"]

HandshakeWithoutToken(tok) == [event |-> "app_connection", orbit_session_token |-> "none"]

\* The JSON document sent right after ws_connect
HandshakeFrame(tok) == [event |-> "app_connection", orbit_session_token |-> tok]

\* aiohttp message kinds handed out by receive(); TEXT_BAD is a TEXT frame
\* whose data json.loads rejects
MsgTypes == {"TEXT", "TEXT_BAD", "PING", "PONG", "CLOSE", "ERROR", "CLOSED",
             "CLOSING", "BINARY"}

Msgs == [type : {"TEXT"}, data : Payloads]
          \cup [type : MsgTypes \ {"TEXT"}, data : {"-"}]

DispatchesCallbackPing(type) == type \in {"TEXT", "PING"}

\* line 104: only a TEXT message is dispatched to the callback
DispatchesCallback(type) == type = "TEXT"

\* lines 104-120: TEXT, PING and PONG keep the receive loop going, anything
\* else breaks out of it; json.loads raising leaves it through the except
KeepsReceiving(type) == type \in {"TEXT", "PING", "PONG"}

HeartbeatNotRearmed == hbTimer

\* _reset_heartbeat: cancel the pending handle, arm a new one
ResetHeartbeat == Heartbeat

\* retry(): the new state
RetryState(s) == IF s # STATE_STARTING THEN STATE_STARTING ELSE s

\* retry(): the pending call_later timers
RetryTimers(s, timers) ==
    IF s # STATE_STARTING THEN Append(timers, RECONNECT_DELAY) ELSE timers

FreeTask == [pc |-> "free", conn |-> 0]

IsOpen(c) == c # 0 /\ conns[c].open

CloseConn(cs, c) == IF c = 0 THEN cs ELSE [cs EXCEPT ![c].open = FALSE]

\* tail of running(): both the except and the else branch call retry()
\* unless the state is stopped
FinishRunning(t) ==
    /\ tasks' = [tasks EXCEPT ![t] = FreeTask]
    /\ IF wsState # STATE_STOPPED
          THEN /\ wsState' = RetryState(wsState)
               /\ reconnectTimers' = RetryTimers(wsState, reconnectTimers)
          ELSE UNCHANGED <<wsState, reconnectTimers>>

\* start(): set the state, create the running() task
Start ==
    /\ \E t \in TaskIds :
          /\ tasks[t].pc = "free"
          /\ \A u \in TaskIds : u < t => tasks[u].pc # "free"
          /\ tasks' = [tasks EXCEPT ![t] = [pc |-> "created", conn |-> 0]]
    /\ wsState' = IF wsState # STATE_RUNNING THEN STATE_STARTING ELSE wsState

InitWS ==
    /\ token = "none"
    /\ hasCallback \in BOOLEAN
    /\ wsCreated = FALSE
    /\ wsToken = "none"
    /\ wsState = "none"
    /\ ws = 0
    /\ conns = <<>>
    /\ tasks = [t \in TaskIds |-> FreeTask]
    /\ reconnectTimers = <<>>
    /\ hbTimer = -1
    /\ pingTasks = 0
    /\ readyQ = <<>>
    /\ rxLog = <<>>
    /\ delivered = <<>>
    /\ idle = 0
    /\ stopCalled = FALSE

\* Client.login succeeding: store the token, build the websocket, start it
Login(tok) ==
    /\ ~wsCreated
    /\ token' = tok
    /\ wsCreated' = TRUE
    /\ wsToken' = tok
    /\ Start
    /\ UNCHANGED <<hasCallback, ws, conns, reconnectTimers, hbTimer, pingTasks,
                   readyQ, rxLog, delivered, idle>>
    /\ UNCHANGED stopCalled

\* Client.login raising RequestError, or the response carrying no token
LoginFail ==
    /\ ~wsCreated
    /\ UNCHANGED wsVars

\* first step of running(): the test of line 82
RunningBegin(t) ==
    /\ tasks[t].pc = "created"
    /\ IF ws = 0 \/ ~IsOpen(ws) \/ wsState # STATE_RUNNING
          THEN /\ tasks' = [tasks EXCEPT ![t].pc = "connecting"]
               /\ UNCHANGED <<wsState, reconnectTimers>>
          ELSE FinishRunning(t)
    /\ UNCHANGED <<token, hasCallback, wsCreated, wsToken, ws, conns, hbTimer,
                   pingTasks, readyQ, rxLog, delivered, idle>>
    /\ UNCHANGED stopCalled

\* ws_connect succeeds; the handshake is written in the same loop step
ConnectOk(t) ==
    /\ tasks[t].pc = "connecting"
    /\ Len(conns) < MaxConns
    /\ conns' = Append(conns, [open |-> TRUE, first |-> HandshakeFrame(wsToken),
                               last |-> HandshakeFrame(wsToken)])
    /\ ws' = Len(conns) + 1
    /\ tasks' = [tasks EXCEPT ![t] = [pc |-> "handshaken", conn |-> Len(conns) + 1]]
    /\ UNCHANGED <<token, hasCallback, wsCreated, wsToken, wsState,
                   reconnectTimers, hbTimer, pingTasks, readyQ, rxLog,
                   delivered, idle>>
    /\ UNCHANGED stopCalled

\* ws_connect succeeds but send_str of the handshake raises: the context
\* manager closes the connection and the except branch runs
ConnectHandshakeFail(t) ==
    /\ tasks[t].pc = "connecting"
    /\ Len(conns) < MaxConns
    /\ conns' = Append(conns, [open |-> FALSE, first |-> NoFrame, last |-> NoFrame])
    /\ ws' = Len(conns) + 1
    /\ FinishRunning(t)
    /\ UNCHANGED <<token, hasCallback, wsCreated, wsToken, hbTimer, pingTasks,
                   readyQ, rxLog, delivered, idle>>
    /\ UNCHANGED stopCalled

\* ws_connect raises
ConnectFail(t) ==
    /\ tasks[t].pc = "connecting"
    /\ FinishRunning(t)
    /\ UNCHANGED <<token, hasCallback, wsCreated, wsToken, ws, conns, hbTimer,
                   pingTasks, readyQ, rxLog, delivered, idle>>
    /\ UNCHANGED stopCalled

\* lines 93-97: _reset_heartbeat, state = running, enter the receive loop
Established(t) ==
    /\ tasks[t].pc = "handshaken"
    /\ hbTimer' = ResetHeartbeat
    /\ idle' = 0
    /\ wsState' = STATE_RUNNING
    /\ tasks' = [tasks EXCEPT ![t].pc = "receive"]
    /\ UNCHANGED <<token, hasCallback, wsCreated, wsToken, ws, conns,
                   reconnectTimers, pingTasks, readyQ, rxLog, delivered>>
    /\ UNCHANGED stopCalled

\* one pass of the receive loop, lines 100-120, and on a break lines 122-136
Receive(t, msg) ==
    /\ tasks[t].pc = "receive"
    /\ IsOpen(ws) \/ msg.type \in {"CLOSED", "CLOSING"}
    /\ hbTimer' = ResetHeartbeat
    /\ idle' = 0
    /\ IF KeepsReceiving(msg.type)
          THEN /\ Len(rxLog) < MaxFrames
               /\ rxLog' = Append(rxLog, msg)
               /\ readyQ' = IF DispatchesCallback(msg.type)
                               THEN Append(readyQ, [kind |-> "handler", data |-> msg.data])
                               ELSE readyQ
               /\ UNCHANGED <<tasks, conns, wsState, reconnectTimers>>
          ELSE /\ conns' = CloseConn(CloseConn(conns, tasks[t].conn),
                                     IF msg.type = "CLOSE" THEN ws ELSE 0)
               /\ FinishRunning(t)
               /\ UNCHANGED <<rxLog, readyQ>>
    /\ UNCHANGED <<token, hasCallback, wsCreated, wsToken, ws, pingTasks,
                   delivered>>
    /\ UNCHANGED stopCalled

\* the event loop runs the oldest ensure_future'd coroutine:
\* Client._async_ws_handler, or the user callback it scheduled
RunReady ==
    /\ readyQ # <<>>
    /\ LET h == Head(readyQ) IN
         IF h.kind = "handler"
            THEN /\ readyQ' = IF hasCallback
                                 THEN Append(Tail(readyQ), [kind |-> "callback", data |-> h.data])
                                 ELSE Tail(readyQ)
                 /\ UNCHANGED delivered
            ELSE /\ readyQ' = Tail(readyQ)
                 /\ delivered' = Append(delivered, h.data)
    /\ UNCHANGED <<token, hasCallback, wsCreated, wsToken, wsState, ws, conns,
                   tasks, reconnectTimers, hbTimer, pingTasks, rxLog, idle>>
    /\ UNCHANGED stopCalled

\* _send_heartbeat, called by the loop when the handle is due
HeartbeatFire ==
    /\ hbTimer = 0
    /\ hbTimer' = -1
    /\ pingTasks' = IF IsOpen(ws) THEN pingTasks + 1 ELSE pingTasks
    /\ UNCHANGED <<token, hasCallback, wsCreated, wsToken, wsState, ws, conns,
                   tasks, reconnectTimers, readyQ, rxLog, delivered, idle>>
    /\ UNCHANGED stopCalled

\* _ping: send_str raises on a closed socket, else the ping is written and
\* the countdown restarts
Ping ==
    /\ pingTasks > 0
    /\ pingTasks' = pingTasks - 1
    /\ IF IsOpen(ws)
          THEN /\ conns' = [conns EXCEPT ![ws].last = PingFrame]
               /\ hbTimer' = ResetHeartbeat
               /\ idle' = 0
          ELSE UNCHANGED <<conns, hbTimer, idle>>
    /\ UNCHANGED <<token, hasCallback, wsCreated, wsToken, wsState, ws, tasks,
                   reconnectTimers, readyQ, rxLog, delivered>>
    /\ UNCHANGED stopCalled

\* a call_later(RECONNECT_DELAY, self.start) handle is due
ReconnectFire ==
    /\ reconnectTimers # <<>>
    /\ Head(reconnectTimers) = 0
    /\ reconnectTimers' = Tail(reconnectTimers)
    /\ Start
    /\ UNCHANGED <<token, hasCallback, wsCreated, wsToken, ws, conns, hbTimer,
                   pingTasks, readyQ, rxLog, delivered, idle>>
    /\ UNCHANGED stopCalled

\* Client.stop -> OrbitWebsocket.stop; with _ws None the close raises
Stop ==
    /\ wsCreated
    /\ wsState' = STATE_STOPPED
    /\ conns' = CloseConn(conns, ws)
    /\ UNCHANGED <<token, hasCallback, wsCreated, wsToken, ws, tasks,
                   reconnectTimers, hbTimer, pingTasks, readyQ, rxLog,
                   delivered, idle>>
    /\ stopCalled' = TRUE

Min(a, b) == IF a < b THEN a ELSE b

PendingTimes == {reconnectTimers[i] : i \in 1..Len(reconnectTimers)}
                  \cup (IF hbTimer >= 0 THEN {hbTimer} ELSE {})

\* time passes on the loop clock: no coroutine is ready to run and no
\* timer handle is overdue
Tick(d) ==
    /\ readyQ = <<>>
    /\ pingTasks = 0
    /\ \A t \in TaskIds : tasks[t].pc \in {"free", "connecting", "receive"}
    /\ PendingTimes # {}
    /\ \A r \in PendingTimes : d <= r
    /\ \/ d % TickQuantum = 0
       \/ d \in PendingTimes
    /\ reconnectTimers' = [i \in 1..Len(reconnectTimers) |-> reconnectTimers[i] - d]
    /\ hbTimer' = IF hbTimer >= 0 THEN hbTimer - d ELSE hbTimer
    /\ idle' = Min(idle + d, Heartbeat + 1)
    /\ UNCHANGED <<token, hasCallback, wsCreated, wsToken, wsState, ws, conns,
                   tasks, pingTasks, readyQ, rxLog, delivered>>
    /\ UNCHANGED stopCalled

\* the websocket steps leave the coordinator and the entities alone
FrameWS == UNCHANGED <<coordVars, sensorVars, valveVars, switchVars, flowVars, utilVars, thrVars,
               restVars>>

NextWS ==
    \/ \E tok \in Tokens : Login(tok) /\ FrameWS
    \/ LoginFail /\ FrameWS
    \/ \E t \in TaskIds : RunningBegin(t) /\ FrameWS
    \/ \E t \in TaskIds : ConnectOk(t) /\ FrameWS
    \/ \E t \in TaskIds : ConnectHandshakeFail(t) /\ FrameWS
    \/ \E t \in TaskIds : ConnectFail(t) /\ FrameWS
    \/ \E t \in TaskIds : Established(t) /\ FrameWS
    \/ \E t \in TaskIds, msg \in Msgs : Receive(t, msg) /\ FrameWS
    \/ RunReady /\ FrameWS
    \/ HeartbeatFire /\ FrameWS
    \/ Ping /\ FrameWS
    \/ ReconnectFire /\ FrameWS
    \/ Stop /\ FrameWS
    \/ \E d \in 1..Heartbeat : Tick(d) /\ FrameWS

InitCoord ==
    /\ clientDevices = <<>>
    /\ clientPrograms = <<>>
    /\ fetchedDevices = <<>>
    /\ fetchedPrograms = <<>>
    /\ devicesShared = FALSE
    /\ data = <<>>
    /\ pollPc = "idle"
    /\ pollDevices = <<>>
    /\ pollIdx = 0
    /\ pollData = <<>>
    /\ pollOutcomes = <<>>
    /\ pollResult = "none"
    /\ lastPollData = <<>>
    /\ patchLog = <<>>
    /\ notified = <<>>
    /\ handled = 0

NoRead == [read |-> FALSE]

InitSensor == lastRead = NoRead

InitValve ==
    /\ valveZoneId = [none |-> TRUE]
    /\ valveClosed = TRUE
    /\ valveAttrs = <<>>
    /\ valvePreset = 0
    /\ valveEvent = <<>>
    /\ valveWasClosed = TRUE
    /\ valveRaised = FALSE
    /\ valveCall = ""
    /\ valveReported = 0
    /\ valveSent = <<>>

\* BHyveEntity.__init__ (line 163) and BHyveRainDelaySwitch.__init__ (line 254)
\* for the rain delay switch; no program switch yet
InitSwitch ==
    /\ rainIsOn = FALSE
    /\ rainAttrs = <<>>
    /\ rainCall = ""
    /\ rainEvent = <<>>
    /\ rainRaised = FALSE
    /\ rainSent = <<>>
    /\ rainReported = [none |-> TRUE]
    /\ rainLocal = FALSE
    /\ progProgram = [none |-> TRUE]
    /\ progId = ""
    /\ progCall = ""
    /\ progEvent = <<>>
    /\ progSent = <<>>
    /\ progReported = [none |-> TRUE]
    /\ progLocal = FALSE

\* ConfigFlow.__init__ (lines 39-45), no config entry yet
InitFlow ==
    /\ flowUsername = [none |-> TRUE]
    /\ flowData = <<>>
    /\ flowEntries = <<>>
    /\ flowReloads = 0
    /\ flowCall = [method |-> "__init__"]
    /\ flowResult = [none |-> TRUE]
    /\ flowCalls = 0

\* no function of util.py has been called
InitUtil ==
    /\ utilCall = [fn |-> ""]
    /\ utilResult = [none |-> TRUE]

MaxCallers == 2

\* pybhyve/const.py line 8
API_POLL_PERIOD == 300

ThrCallers == 1..MaxCallers

\* Client.__init__ (lines 41-42): _devices = [], _last_poll_devices = 0;
\* time.time() is far beyond one poll period
InitThr ==
    /\ thrNow = API_POLL_PERIOD
    /\ thrLastPoll = 0
    /\ thrCache = 0
    /\ thrCallers = [c \in ThrCallers |-> [pc |-> "idle", now |-> 0, force |-> FALSE]]
    /\ thrRequests = <<>>
    /\ thrLastCall = [kind |-> "none"]

\* the device ids whose history is asked for
CliDeviceIds == {"d1", "d2"}

\* Client.__init__ (lines 41-48): empty caches, every last poll 0;
\* time.time() is far beyond one poll period
InitCli ==
    /\ cliNow = API_POLL_PERIOD
    /\ cliDevices = 0
    /\ cliLastPollDevices = 0
    /\ cliPrograms = 0
    /\ cliLastPollPrograms = 0
    /\ cliHistories = <<>>
    /\ cliLastPollHistories = 0
    /\ cliLastCall = [fn |-> "__init__"]

\* the entity classes: the base class, whose _should_handle_event is that
\* of BHyveWebsocketEntity, and the zone valve, which overrides it
EntKinds == {"BHyveDeviceEntity", "BHyveZoneValve"}

\* no entity yet
InitEnt ==
    /\ entKind = ""
    /\ entAvailable = FALSE
    /\ entQueue = <<>>
    /\ entScheduled = 0
    /\ entArrived = <<>>
    /\ entProcessed = <<>>
    /\ entLast = [step |-> "__init__", raised |-> ""]

MaxValves == 2

\* the stations of the device, one valve each
ZvStations == 1..MaxValves

\* BHyveZoneValve.__init__ with no station watering: every valve closed,
\* every queue empty
InitZv ==
    /\ zvClosed = [z \in ZvStations |-> TRUE]
    /\ zvQueue = [z \in ZvStations |-> <<>>]
    /\ zvStream = <<>>
    /\ zvCommanded = FALSE
    /\ zvLast = [step |-> "__init__"]

\* BHyveRainDelaySwitch.__init__ (line 253) and _setup (line 268):
\* _update_device_cb = None
InitRd ==
    /\ rdNow = 0
    /\ rdCb = 0
    /\ rdTimers = <<>>
    /\ rdRefetching = {}
    /\ rdLog = <<>>

InitAll ==
    /\ InitWS /\ InitCoord /\ InitSensor /\ InitValve /\ InitSwitch /\ InitFlow
    /\ InitUtil /\ InitThr /\ InitCli /\ InitEnt /\ InitZv /\ InitRd

SpecWS == InitAll /\ [][NextWS]_vars

(***************************************************************************)
(* Websocket claims.                                                       *)
(***************************************************************************)

\* a running() coroutine ends: the connection attempt raised, or the
\* established connection closed or errored
FailureStep == \E t \in TaskIds :
    tasks[t].pc \in {"connecting", "receive"} /\ tasks'[t].pc = "free"

\* C1: whenever a connection attempt raises or an established connection
\* closes or errors, and stop() has not been called, a reconnect is scheduled
\* RECONNECT_DELAY seconds later; this holds for every failure in a row.
C1_ReconnectOnEveryFailure ==
    [][(FailureStep /\ ~stopCalled)
          => reconnectTimers' = Append(reconnectTimers, RECONNECT_DELAY)]_vars

\* the part of C1 the code does provide: the loss of a connection that had
\* reached the running state schedules the reconnect
C1_ReconnectAfterRunningLoss ==
    [][(FailureStep /\ ~stopCalled /\ wsState = STATE_RUNNING)
          => reconnectTimers' = Append(reconnectTimers, RECONNECT_DELAY)]_vars

TextPayloads(log) ==
    LET texts == SelectSeq(log, LAMBDA m : m.type = "TEXT")
    IN  [i \in 1..Len(texts) |-> texts[i].data]

QueueData(kind) ==
    LET sel == SelectSeq(readyQ, LAMBDA h : h.kind = kind)
    IN  [i \in 1..Len(sel) |-> sel[i].data]

\* every decoded TEXT payload is delivered, or on its way through the
\* loop, once and in arrival order
CallbackPipeline ==
    IF hasCallback
       THEN delivered \o QueueData("callback") \o QueueData("handler")
               = TextPayloads(rxLog)
       ELSE delivered = <<>> /\ QueueData("callback") = <<>>

PingPongStep ==
    /\ Len(rxLog') = Len(rxLog) + 1
    /\ rxLog'[Len(rxLog')].type \in {"PING", "PONG"}

\* C2: for every TEXT frame received on an open connection the configured
\* callback is invoked exactly once with the decoded payload, in the order
\* of reception; PING and PONG frames invoke no callback and do not end the
\* connection.
C2_CallbackPerTextFrame ==
    /\ []CallbackPipeline
    /\ [][PingPongStep => /\ readyQ' = readyQ
                          /\ delivered' = delivered
                          /\ conns' = conns
                          /\ tasks' = tasks
                          /\ wsState' = wsState]_vars

C2_Witness ==
    /\ hasCallback
    /\ delivered = <<"p2", "p1">>
    /\ readyQ = <<>>

EstablishedOpen == IsOpen(ws) /\ \E t \in TaskIds : tasks[t].pc = "receive"

\* C3: on an open connection the countdown is always armed or a ping is
\* about to be written; a due countdown creates the ping, a written ping
\* and every received frame restart the countdown at the heartbeat interval.
C3_PeriodicPings ==
    /\ [](EstablishedOpen => /\ hbTimer >= 0 \/ pingTasks > 0
                             /\ idle <= 25
                             /\ hbTimer >= 0 => hbTimer + idle = 25)
    /\ [][/\ (hbTimer = 0 /\ hbTimer' = -1 /\ IsOpen(ws))
               => pingTasks' = pingTasks + 1
          /\ (pingTasks' < pingTasks /\ IsOpen(ws))
               => conns'[ws].last = [event |-> "ping"] /\ hbTimer' = 25
          /\ Len(rxLog') > Len(rxLog) => hbTimer' = 25]_vars

C3_Witness ==
    /\ EstablishedOpen
    /\ conns[ws].last = [event |-> "ping"]
    /\ pingTasks = 1
    /\ rxLog # <<>>

\* C4: on every connection the first frame sent is the app_connection
\* handshake with the token login() stored; the state is running, and
\* frames are read, only on a connection that has sent it.
C4_HandshakeFirst ==
    LET hs == [event |-> "app_connection", orbit_session_token |-> token] IN
    /\ \A c \in 1..Len(conns) :
          /\ conns[c].first \in {NoFrame, hs}
          /\ conns[c].first = NoFrame => conns[c].last = NoFrame /\ ~conns[c].open
    /\ wsState = STATE_RUNNING => ws # 0 /\ conns[ws].first = hs
    /\ \A t \in TaskIds : tasks[t].pc = "receive" =>
          /\ tasks[t].conn = ws
          /\ conns[ws].first = hs

C4_Witness ==
    /\ Len(conns) = 2
    /\ \A c \in 1..2 : conns[c].first =
          [event |-> "app_connection", orbit_session_token |-> "tokB"]
    /\ wsState = STATE_RUNNING
    /\ IsOpen(ws)
    /\ rxLog # <<>>

(***************************************************************************)
(* coordinator.py: BHyveDataUpdateCoordinator.                             *)
(* Python dicts are functions; DOMAIN d is the set of keys.                *)
(***************************************************************************)
MaxEvents == 2
MaxZones == 2

DEVICE_SPRINKLER == "sprinkler_timer"
EVENT_BATTERY_STATUS == "battery_status"
EVENT_CHANGE_MODE == "change_mode"
EVENT_DEVICE_IDLE == "device_idle"
EVENT_FS_ALARM == "fs_status_update"
EVENT_PROGRAM_CHANGED == "program_changed"
EVENT_RAIN_DELAY == "rain_delay"
EVENT_SET_MANUAL_PRESET_TIME == "set_manual_preset_runtime"
EVENT_WATERING_COMPLETE == "watering_complete"
EVENT_WATERING_IN_PROGRESS == "watering_in_progress_notification"

EmptyDict == <<>>
Has(d, k) == k \in DOMAIN d
Put(d, k, v) == [x \in DOMAIN d \cup {k} |-> IF x = k THEN v ELSE d[x]]
Del(d, k) == [x \in DOMAIN d \ {k} |-> d[x]]
DictUpdate(d, e) ==
    [x \in DOMAIN d \cup DOMAIN e |-> IF x \in DOMAIN e THEN e[x] ELSE d[x]]

\* values of keys that hold more than one JSON type carry a tag
NoneVal == [none |-> TRUE]
StrVal(x) == [str |-> x]
NumVal(n) == [num |-> n]
EmptyDictVal == [dict |-> EmptyDict]

\* d.get("id") with None and "" both falsy
IdOf(d) == IF Has(d, "id") THEN d["id"] ELSE ""

\* str() of a small non-negative int
IntToStr(n) == <<"0", "1", "2", "3", "4", "5", "6", "7", "8", "9">>[n + 1]

\* ---- what the vendor API may answer ----
Sprinkler1 ==
    ("id" :> "d1") @@ ("type" :> DEVICE_SPRINKLER)
      @@ ("status" :> ("run_mode" :> "auto"))
      @@ ("battery" :> [percent |-> 85])
      @@ ("zones" :> <<("station" :> 1), ("name" :> "unnumbered")>>)

Sprinkler2 == ("id" :> "d2") @@ ("type" :> DEVICE_SPRINKLER)

Flood3 ==
    ("id" :> "d3") @@ ("type" :> "flood_sensor")
      @@ ("status" :> ("temp_f" :> 72))
      @@ ("battery" :> [mv |-> 2700])

NoIdDevice == ("type" :> DEVICE_SPRINKLER) @@ ("name" :> "unpaired")

DeviceLists == {<<Sprinkler1, Flood3>>, <<NoIdDevice, Sprinkler2>>}

Program1 == ("id" :> "p1") @@ ("device_id" :> "d1") @@ ("enabled" :> TRUE)
              @@ ("name" :> "mornings")
Program2 == ("id" :> "p2") @@ ("device_id" :> "d2") @@ ("enabled" :> TRUE)
NoIdProgram == ("device_id" :> "d1") @@ ("enabled" :> TRUE)

ProgramLists == {<<NoIdProgram, Program1, Program2>>}

HistoryOutcomes == {"ok", "error", "notlist"}
FetchedHistory == <<"run1">>
FetchedLandscape(deviceId, station) == [device_id |-> deviceId, station |-> station]

\* ---- websocket events handed to the coordinator ----
Ev(name, deviceId) == ("event" :> name) @@ ("device_id" :> deviceId)

DeviceEvents ==
    { Ev(EVENT_BATTERY_STATUS, "d1") @@ ("battery" :> [percent |-> 50]),
      Ev(EVENT_CHANGE_MODE, "d1") @@ ("mode" :> "auto"),
      Ev(EVENT_DEVICE_IDLE, "d1"),
      Ev(EVENT_WATERING_IN_PROGRESS, "d1") @@ ("program" :> StrVal("e")),
      Ev(EVENT_SET_MANUAL_PRESET_TIME, "d2") @@ ("seconds" :> 480),
      ("event" :> "device_connected") }

ProgramEvents ==
    { ("event" :> EVENT_PROGRAM_CHANGED)
         @@ ("program" :> (("id" :> "p1") @@ ("enabled" :> FALSE) @@ ("budget" :> 80))),
      ("event" :> EVENT_PROGRAM_CHANGED) @@ ("program_id" :> "p9")
         @@ ("enabled" :> FALSE) }

\* lines 196-209: the event is for a device of an initialised snapshot
HandlesDeviceEvent(d, e) ==
    /\ DOMAIN d # {}
    /\ Has(e, "device_id")
    /\ e["device_id"] # ""
    /\ e["device_id"] \in DOMAIN d["devices"]

MergeDeviceKeepsWatering(dev, e) ==
    LET ev == IF Has(e, "event") THEN e["event"] ELSE ""
        st == IF Has(dev, "status") THEN dev["status"] ELSE EmptyDict
    IN  CASE ev = EVENT_DEVICE_IDLE ->
               Put(dev, "status", Del(Put(st, "run_mode", "off"), "watering_status"))
          [] ev = EVENT_WATERING_COMPLETE ->
               Put(dev, "status", Put(st, "run_mode", "off"))
          [] ev = EVENT_WATERING_IN_PROGRESS ->
               Put(dev, "status",
                   Put(Put(st, "watering_status",
                           IF Has(e, "program") THEN e["program"] ELSE EmptyDictVal),
                       "run_mode", IF Has(e, "mode") THEN e["mode"] ELSE "manual"))
          [] OTHER -> dev

\* lines 212-264: the per-event patch of the device record
MergeDevice(dev, e) ==
    LET ev == IF Has(e, "event") THEN e["event"] ELSE ""
        st == IF Has(dev, "status") THEN dev["status"] ELSE EmptyDict
    IN  CASE ev = EVENT_BATTERY_STATUS ->
               IF Has(e, "battery") THEN Put(dev, "battery", e["battery"]) ELSE dev
          [] ev \in {EVENT_CHANGE_MODE, EVENT_FS_ALARM} ->
               Put(dev, "status", DictUpdate(st, e))
          [] ev \in {EVENT_DEVICE_IDLE, EVENT_WATERING_COMPLETE} ->
               Put(dev, "status", Del(Put(st, "run_mode", "off"), "watering_status"))
          [] ev = EVENT_WATERING_IN_PROGRESS ->
               Put(dev, "status",
                   Put(Put(st, "watering_status",
                           IF Has(e, "program") THEN e["program"] ELSE EmptyDictVal),
                       "run_mode", IF Has(e, "mode") THEN e["mode"] ELSE "manual"))
          [] ev = EVENT_RAIN_DELAY ->
               Put(dev, "status",
                   Put(st, "rain_delay", IF Has(e, "delay") THEN e["delay"] ELSE 0))
          [] ev = EVENT_SET_MANUAL_PRESET_TIME ->
               Put(dev, "status",
                   Put(st, "manual_preset_runtime",
                       IF Has(e, "runtime") THEN e["runtime"] ELSE NoneVal))
          [] OTHER -> dev

ApplyDeviceEventWholeEntry(d, e) ==
    IF HandlesDeviceEvent(d, e)
       THEN LET id == e["device_id"]
                entry == d["devices"][id]
            IN  Put(d, "devices",
                    Put(d["devices"], id,
                        [entry EXCEPT !.device = MergeDevice(entry.device, e),
                                      !.history = <<>>]))
       ELSE d

\* async_handle_device_event: the snapshot after the call
ApplyDeviceEvent(d, e) ==
    IF HandlesDeviceEvent(d, e)
       THEN LET id == e["device_id"]
                entry == d["devices"][id]
            IN  Put(d, "devices",
                    Put(d["devices"], id,
                        [entry EXCEPT !.device = MergeDevice(entry.device, e)]))
       ELSE d

\* lines 275-280: program_id, else program.id, "" when there is none
EventProgramId(e) ==
    IF Has(e, "program_id") /\ e["program_id"] # ""
       THEN e["program_id"]
       ELSE IF Has(e, "program") THEN IdOf(e["program"]) ELSE ""

\* lines 271-287
HandlesProgramEvent(d, e) ==
    /\ DOMAIN d # {}
    /\ EventProgramId(e) # ""
    /\ EventProgramId(e) \in DOMAIN d["programs"]

ApplyProgramEventReplace(d, e) ==
    IF HandlesProgramEvent(d, e)
       THEN LET id == EventProgramId(e)
                prog == d["programs"][id]
            IN  Put(d, "programs",
                    Put(d["programs"], id,
                        IF Has(e, "program") THEN e["program"]
                        ELSE IF Has(e, "enabled") THEN Put(prog, "enabled", e["enabled"])
                        ELSE prog))
       ELSE d

\* async_handle_program_event: the snapshot after the call
ApplyProgramEvent(d, e) ==
    IF HandlesProgramEvent(d, e)
       THEN LET id == EventProgramId(e)
                prog == d["programs"][id]
            IN  Put(d, "programs",
                    Put(d["programs"], id,
                        IF Has(e, "program") THEN DictUpdate(prog, e["program"])
                        ELSE IF Has(e, "enabled") THEN Put(prog, "enabled", e["enabled"])
                        ELSE prog))
       ELSE d

NotifyStale(old, new) == old

\* lines 267, 298: the listeners are called with the patched self.data
NotifyData(old, new) == new

\* the dicts of a list the event patches in place, seen through the list
PatchDevices(devs, e) ==
    [i \in 1..Len(devs) |->
        IF IdOf(devs[i]) = e["device_id"] THEN MergeDevice(devs[i], e) ELSE devs[i]]

\* async_handle_device_event(event_data); line 212 patches the device dict
\* itself, which Client._devices and a running poll may hold as well
HandleDeviceEvent(e) ==
    /\ handled < MaxEvents
    /\ handled' = handled + 1
    /\ data' = ApplyDeviceEvent(data, e)
    /\ patchLog' = Append(patchLog, [kind |-> "device", ev |-> e])
    /\ notified' = IF HandlesDeviceEvent(data, e)
                      THEN <<NotifyData(data, data')>> ELSE <<>>
    /\ IF HandlesDeviceEvent(data, e) /\ devicesShared
          THEN /\ clientDevices' = PatchDevices(clientDevices, e)
               /\ pollDevices' = PatchDevices(pollDevices, e)
               /\ pollData' = [id \in DOMAIN pollData |->
                                 IF id = e["device_id"]
                                    THEN [pollData[id] EXCEPT
                                            !.device = MergeDevice(@, e)]
                                    ELSE pollData[id]]
          ELSE UNCHANGED <<clientDevices, pollDevices, pollData>>
    /\ UNCHANGED <<clientPrograms, fetchedDevices, fetchedPrograms, devicesShared,
                   pollPc, pollIdx, pollOutcomes, pollResult,
                   lastPollData>>

\* the program dicts of Client._timer_programs after the in-place patch
PatchPrograms(progs, d, e) ==
    [i \in 1..Len(progs) |->
        IF IdOf(progs[i]) = EventProgramId(e)
           THEN ApplyProgramEvent(d, e)["programs"][EventProgramId(e)]
           ELSE progs[i]]

\* async_handle_program_event(event_data); lines 292-295 patch the program
\* dict itself, which is the one Client._timer_programs holds
HandleProgramEvent(e) ==
    /\ handled < MaxEvents
    /\ handled' = handled + 1
    /\ data' = ApplyProgramEvent(data, e)
    /\ patchLog' = Append(patchLog, [kind |-> "program", ev |-> e])
    /\ notified' = IF HandlesProgramEvent(data, e)
                      THEN <<NotifyData(data, data')>> ELSE <<>>
    /\ clientPrograms' = IF HandlesProgramEvent(data, e)
                            THEN PatchPrograms(clientPrograms, data, e)
                            ELSE clientPrograms
    /\ UNCHANGED <<clientDevices, fetchedDevices, fetchedPrograms, devicesShared,
                   pollPc, pollDevices, pollIdx, pollData, pollOutcomes,
                   pollResult, lastPollData>>

\* a refresh is due or requested: _async_update_data is entered
PollStart ==
    /\ pollPc = "idle"
    /\ pollPc' = "devices"
    /\ UNCHANGED <<clientDevices, clientPrograms, fetchedDevices, fetchedPrograms,
                   devicesShared, data, pollDevices, pollIdx, pollData,
                   pollOutcomes, pollResult, lastPollData,
                   patchLog, notified, handled>>

\* line 59 with Client._refresh_devices issuing the request: the answer
\* replaces Client._devices, the snapshot keeps the dicts of the old list
PollFetchDevices(dl) ==
    /\ pollPc = "devices"
    /\ clientDevices' = dl
    /\ fetchedDevices' = dl
    /\ devicesShared' = FALSE
    /\ pollDevices' = dl
    /\ pollIdx' = 1
    /\ pollPc' = "device"
    /\ UNCHANGED <<clientPrograms, fetchedPrograms, data, pollData, pollOutcomes,
                   pollResult, lastPollData, patchLog, notified,
                   handled>>

\* line 59 less than API_POLL_PERIOD after the last fetch: Client.devices
\* returns the list it holds
PollCachedDevices ==
    /\ pollPc = "devices"
    /\ clientDevices # <<>>
    /\ pollDevices' = clientDevices
    /\ pollIdx' = 1
    /\ pollPc' = "device"
    /\ UNCHANGED <<clientDevices, clientPrograms, fetchedDevices, fetchedPrograms,
                   devicesShared, data, pollData, pollOutcomes, pollResult, lastPollData, patchLog, notified, handled>>

\* lines 122-127: a BHyveError from client.devices (line 59) or from
\* client.timer_programs (line 114) becomes UpdateFailed; the dict being
\* built is dropped with the frame and self.data stays
PollFails ==
    /\ \/ pollPc = "devices"
       \/ pollPc = "device" /\ pollIdx > Len(pollDevices)
    /\ pollPc' = "idle"
    /\ pollResult' = "UpdateFailed"
    /\ pollDevices' = <<>>
    /\ pollIdx' = 0
    /\ pollData' = EmptyDict
    /\ pollOutcomes' = <<>>
    /\ UNCHANGED <<clientDevices, clientPrograms, fetchedDevices, fetchedPrograms,
                   devicesShared, data, lastPollData, patchLog,
                   notified, handled>>

ZonesOf(dev) == IF Has(dev, "zones") THEN dev["zones"] ELSE <<>>

\* lines 154-156: the zones fetch_zone_landscape asks a landscape for
StationedZones(dev) ==
    {i \in 1..Len(ZonesOf(dev)) :
        Has(ZonesOf(dev)[i], "station") /\ ZonesOf(dev)[i]["station"] # 0}

\* _fetch_device_history: [] on BHyveError and when the answer is no list
HistoryResult(outcome) == IF outcome = "ok" THEN FetchedHistory ELSE <<>>

\* _fetch_landscapes: the zones whose fetch gave a landscape, by str(station)
LandscapesResult(dev, okZones) ==
    [k \in {IntToStr(ZonesOf(dev)[i]["station"]) : i \in okZones}
        |-> FetchedLandscape(IdOf(dev), k)]

IsSprinkler(dev) == Has(dev, "type") /\ dev["type"] = DEVICE_SPRINKLER

PollEntryCoupled(dev, histOut, okZones) ==
    [device |-> dev,
     history |-> IF IsSprinkler(dev) THEN HistoryResult(histOut) ELSE <<>>,
     landscapes |-> IF IsSprinkler(dev) /\ histOut = "ok"
                       THEN LandscapesResult(dev, okZones) ELSE EmptyDict]

\* lines 76-111: the record stored for a device with an id
PollEntry(dev, histOut, okZones) ==
    [device |-> dev,
     history |-> IF IsSprinkler(dev) THEN HistoryResult(histOut) ELSE <<>>,
     landscapes |-> IF IsSprinkler(dev) THEN LandscapesResult(dev, okZones)
                                        ELSE EmptyDict]

\* lines 68-111: one pass of the device loop
PollDevice(histOut, okZones) ==
    /\ pollPc = "device"
    /\ pollIdx <= Len(pollDevices)
    /\ LET dev == pollDevices[pollIdx]
           fetches == IdOf(dev) # "" /\ IsSprinkler(dev)
       IN  /\ IF fetches
                 THEN okZones \subseteq StationedZones(dev)
                 ELSE histOut = "ok" /\ okZones = {}
           /\ pollData' = IF IdOf(dev) = "" THEN pollData
                          ELSE Put(pollData, IdOf(dev),
                                   PollEntry(dev, histOut, okZones))
           /\ pollOutcomes' = Append(pollOutcomes,
                 [histOk |-> fetches /\ histOut = "ok", lsOk |-> okZones])
    /\ pollIdx' = pollIdx + 1
    /\ UNCHANGED <<clientDevices, clientPrograms, fetchedDevices, fetchedPrograms,
                   devicesShared, data, pollPc, pollDevices, pollResult, lastPollData, patchLog, notified, handled>>

RECURSIVE AddPrograms(_, _, _)
\* lines 115-118
AddPrograms(acc, pl, i) ==
    IF i > Len(pl) THEN acc
    ELSE AddPrograms(IF IdOf(pl[i]) # "" THEN Put(acc, IdOf(pl[i]), pl[i]) ELSE acc,
                     pl, i + 1)

\* lines 62-65, 107-120: the dict the poll returns
PollReturn(devs, pl) ==
    ("devices" :> devs) @@ ("programs" :> AddPrograms(EmptyDict, pl, 1))

\* DataUpdateCoordinator (line 36): self.data = await _async_update_data()
SetData(old, new) == new

\* lines 115-120: the poll returns with the programs pl, self.data is set
\* to the dict built from the client's lists, listeners are told
PollReturns(pl) ==
    /\ pollPc = "device"
    /\ pollIdx > Len(pollDevices)
    /\ data' = SetData(data, PollReturn(pollData, pl))
    /\ lastPollData' = PollReturn(pollData, pl)
    /\ devicesShared' = TRUE
    /\ patchLog' = <<>>
    /\ pollResult' = "ok"
    /\ pollPc' = "idle"
    /\ notified' = <<data'>>
    /\ pollDevices' = <<>>
    /\ pollIdx' = 0
    /\ pollData' = EmptyDict
    /\ pollOutcomes' = <<>>
    /\ UNCHANGED <<clientDevices, fetchedDevices, handled>>

\* line 114 with Client._refresh_timer_programs issuing the request
PollFetchPrograms(pl) ==
    /\ PollReturns(pl)
    /\ clientPrograms' = pl
    /\ fetchedPrograms' = pl

\* line 114 less than API_POLL_PERIOD after the last programs fetch
PollCachedPrograms ==
    /\ clientPrograms # <<>>
    /\ PollReturns(clientPrograms)
    /\ UNCHANGED <<clientPrograms, fetchedPrograms>>

\* a coordinator operation ran: the latest operation is no read
FrameCoord == UNCHANGED <<wsVars, valveVars, switchVars, flowVars, utilVars, thrVars,
               restVars>> /\ lastRead' = NoRead

NextCoord ==
    \/ \E e \in DeviceEvents : HandleDeviceEvent(e) /\ FrameCoord
    \/ \E e \in ProgramEvents : HandleProgramEvent(e) /\ FrameCoord
    \/ PollStart /\ FrameCoord
    \/ \E dl \in DeviceLists : PollFetchDevices(dl) /\ FrameCoord
    \/ PollCachedDevices /\ FrameCoord
    \/ PollFails /\ FrameCoord
    \/ \E h \in HistoryOutcomes, z \in SUBSET (1..MaxZones) :
          PollDevice(h, z) /\ FrameCoord
    \/ \E pl \in ProgramLists : PollFetchPrograms(pl) /\ FrameCoord
    \/ PollCachedPrograms /\ FrameCoord

SpecCoord == InitAll /\ [][NextCoord]_vars

(***************************************************************************)
(* sensor.py: BHyveSensor, a view over the coordinator snapshot            *)
(***************************************************************************)
\* async_setup_entry: a state sensor per sprinkler, a temperature sensor per
\* flood sensor, a battery sensor per device that reports a battery
Sensors == {<<"d1", "state">>, <<"d1", "battery">>, <<"d2", "state">>,
            <<"d3", "temperature">>, <<"d3", "battery">>}

\* the events that change what a sensor shows
SensorEvents ==
    {e \in DeviceEvents :
        /\ e["event"] \in {EVENT_BATTERY_STATUS, EVENT_CHANGE_MODE,
                           EVENT_WATERING_IN_PROGRESS, EVENT_DEVICE_IDLE}
        /\ Has(e, "device_id") /\ e["device_id"] = "d1"}

\* BHyveCoordinatorEntity.device_data: the device record of this entity in
\* coordinator.data, {} while there is none
DeviceData(d, id) ==
    IF d # EmptyDict /\ id \in DOMAIN d["devices"]
       THEN d["devices"][id].device ELSE EmptyDict

\* mv of 0..3300 for which binary64 mv / 3000 * 100 falls short of the exact
\* quotient's integer part
FloatShortfall == {870, 1710, 1740}

\* _parse_battery_level (battery_data is a dict here)
ParseBatteryLevel(b) ==
    IF "percent" \in DOMAIN b THEN b.percent
    ELSE IF "mv" \in DOMAIN b
            THEN LET exact == (b.mv * 100) \div 3000
                     level == IF b.mv \in FloatShortfall THEN exact - 1 ELSE exact
                 IN  IF level > 100 THEN 100 ELSE level
            ELSE 0

ValueFnTopLevel(key, dd) ==
    CASE key = "state" ->
           StrVal(IF Has(dd, "run_mode") THEN dd["run_mode"] ELSE "unavailable")
      [] key = "temperature" ->
           IF Has(dd, "temp_f") THEN NumVal(dd["temp_f"]) ELSE NoneVal
      [] key = "battery" ->
           IF Has(dd, "battery") THEN NumVal(ParseBatteryLevel(dd["battery"]))
                                 ELSE NoneVal

\* the value_fn of the description with this key
ValueFn(key, dd) ==
    LET st == IF Has(dd, "status") THEN dd["status"] ELSE EmptyDict
    IN  CASE key = "state" ->
               StrVal(IF Has(st, "run_mode") THEN st["run_mode"] ELSE "unavailable")
          [] key = "temperature" ->
               IF Has(st, "temp_f") THEN NumVal(st["temp_f"]) ELSE NoneVal
          [] key = "battery" ->
               IF Has(dd, "battery") THEN NumVal(ParseBatteryLevel(dd["battery"]))
                                     ELSE NoneVal

\* BHyveSensor.native_value
NativeValue(d, id, key) == ValueFn(key, DeviceData(d, id))

\* a read of native_value of the sensor `key` of device `id`
ReadSensor(id, key) ==
    /\ lastRead' = [read |-> TRUE, id |-> id, key |-> key,
                    value |-> NativeValue(data, id, key)]
    /\ UNCHANGED <<wsVars, coordVars, valveVars, switchVars, flowVars, utilVars, thrVars,
               restVars>>

NextSensor ==
    \/ \E e \in SensorEvents : HandleDeviceEvent(e) /\ FrameCoord
    \/ PollStart /\ FrameCoord
    \/ \E dl \in DeviceLists : PollFetchDevices(dl) /\ FrameCoord
    \/ PollFails /\ FrameCoord
    \/ \E h \in HistoryOutcomes, z \in SUBSET (1..MaxZones) :
          PollDevice(h, z) /\ FrameCoord
    \/ \E pl \in ProgramLists : PollFetchPrograms(pl) /\ FrameCoord
    \/ \E sn \in Sensors : ReadSensor(sn[1], sn[2])

SpecSensor == InitAll /\ [][NextSensor]_vars

(***************************************************************************)
(* valve.py: BHyveZoneValve, one zone valve fed websocket events           *)
(***************************************************************************)
DEFAULT_MANUAL_RUNTIME == 300

ATTR_MANUAL_RUNTIME == "manual_preset_runtime"
ATTR_STARTED_WATERING_AT == "started_watering_station_at"
ATTR_SMART_WATERING_PLAN == "watering_program"
ATTR_CURRENT_STATION == "current_station"
ATTR_CURRENT_PROGRAM == "current_program"
ATTR_CURRENT_RUNTIME == "current_runtime"

\* d.get(k): None when the key is absent
Get(d, k) == IF Has(d, k) THEN d[k] ELSE NoneVal

\* d.get(k, default)
GetOr(d, k, default) == IF Has(d, k) THEN d[k] ELSE default

\* str() of a station id: an int or a string
StrOf(v) == IF "num" \in DOMAIN v THEN IntToStr(v.num) ELSE v.str

\* zone["station"] of the zones a valve is made for
ZoneStations == {NumVal(1), StrVal("1"), NumVal(2)}

GoodTime == "2020-01-09T20:29:59.000Z"
Timestamps == {GoodTime, "", "not-a-time"}

\* homeassistant.util.dt.parse_datetime: None when the string is no datetime
ParseDatetime(ts) ==
    IF ts = GoodTime THEN [utc |-> <<2020, 1, 9, 20, 29, 59>>] ELSE NoneVal

\* homeassistant.util.dt.as_local of a datetime: the same instant, local zone
AsLocal(d) == [instant |-> d.utc, tz |-> "local"]

\* util.orbit_time_to_local_time: as_local(None) raises AttributeError
OrbitTimeToLocalTime(ts) ==
    IF ts = NoneVal THEN [raised |-> FALSE, value |-> NoneVal]
    ELSE IF ParseDatetime(ts.str) = NoneVal
            THEN [raised |-> TRUE, value |-> NoneVal]
            ELSE [raised |-> FALSE, value |-> AsLocal(ParseDatetime(ts.str))]

\* _set_watering_started: the attributes and whether the call raised
SetWateringStarted(attrs, ts, station, program, runtime) ==
    LET started == OrbitTimeToLocalTime(ts)
    IN  IF started.raised THEN [raised |-> TRUE, attrs |-> attrs]
        ELSE [raised |-> FALSE,
              attrs |-> DictUpdate(attrs,
                  (ATTR_CURRENT_STATION :> station)
                    @@ (ATTR_CURRENT_PROGRAM :> program)
                    @@ (ATTR_CURRENT_RUNTIME :> runtime)
                    @@ (ATTR_STARTED_WATERING_AT :> started.value))]

ClearedKeepsStation(attrs) ==
    DictUpdate(attrs,
        (ATTR_CURRENT_PROGRAM :> NoneVal) @@ (ATTR_CURRENT_RUNTIME :> NoneVal)
          @@ (ATTR_STARTED_WATERING_AT :> NoneVal))

\* _set_watering_started(None, None, None, None)
Cleared(attrs) == SetWateringStarted(attrs, NoneVal, NoneVal, NoneVal, NoneVal).attrs

\* ATTR_PROGRAM.format(program_id)
ProgramAttr(id) == CASE id = "a" -> "program_a" [] id = "e" -> "program_e"

\* the run times of the program that are for this zone (== on the raw ids)
ActiveRunTimes(program, zone) ==
    LET rts == IF Has(program, "run_times") THEN program["run_times"] ELSE <<>>
    IN  SelectSeq(rts, LAMBDA x : Get(x, "station") = zone)

\* _set_watering_program for a program dict; a smart program here has no
\* watering_plan, so its upcoming run times are []
SetWateringProgram(attrs, zone, program) ==
    IF ~Has(program, "program") THEN attrs
    ELSE LET enabled == Has(program, "enabled") /\ program["enabled"]
             smart == Has(program, "is_smart_program") /\ program["is_smart_program"]
             base == ("enabled" :> enabled)
                       @@ ("name" :> IF Has(program, "name") THEN program["name"]
                                                              ELSE "Unknown")
                       @@ ("is_smart_program" :> smart)
             active == ActiveRunTimes(program, zone)
             full == IF ~enabled \/ active = <<>> THEN base
                     ELSE IF smart THEN Put(base, ATTR_SMART_WATERING_PLAN, <<>>)
                     ELSE DictUpdate(base,
                            ("start_times" :> GetOr(program, "start_times", <<>>))
                              @@ ("frequency" :> GetOr(program, "frequency", <<>>))
                              @@ ("run_times" :> active))
         IN  Put(attrs, ProgramAttr(program["program"]), full)

\* ---- the events a valve is handed ----
WipEvents ==
    {("event" :> EVENT_WATERING_IN_PROGRESS) @@ ("program" :> StrVal("e"))
        @@ ("run_time" :> NumVal(14)) @@ st @@ ts :
        st \in {EmptyDict} \cup {("current_station" :> x) :
                                    x \in {NumVal(1), StrVal("1"), NumVal(2)}},
        ts \in {EmptyDict} \cup {(ATTR_STARTED_WATERING_AT :> StrVal(t)) :
                                    t \in Timestamps}}

ValveProgram ==
    ("program" :> "a") @@ ("name" :> "mornings") @@ ("enabled" :> TRUE)
      @@ ("run_times" :> <<("run_time" :> NumVal(20)) @@ ("station" :> NumVal(1))>>)
      @@ ("start_times" :> StrVal("07:30"))

ValveEvents ==
    WipEvents \cup
    { ("event" :> EVENT_DEVICE_IDLE),
      ("event" :> EVENT_WATERING_COMPLETE),
      ("event" :> EVENT_CHANGE_MODE) @@ ("mode" :> "off"),
      ("event" :> EVENT_CHANGE_MODE) @@ ("mode" :> "auto"),
      ("event" :> EVENT_CHANGE_MODE) @@ ("mode" :> "manual"),
      ("event" :> EVENT_CHANGE_MODE),
      ("event" :> EVENT_SET_MANUAL_PRESET_TIME) @@ ("seconds" :> NumVal(480)),
      ("event" :> EVENT_SET_MANUAL_PRESET_TIME) @@ ("seconds" :> NumVal(0)),
      ("event" :> EVENT_SET_MANUAL_PRESET_TIME),
      ("event" :> EVENT_PROGRAM_CHANGED) @@ ("program" :> ValveProgram),
      ("event" :> EVENT_PROGRAM_CHANGED) @@ ("lifecycle_phase" :> "destroy") }

\* line 459: str(current_station) == str(self._zone_id)
SameStation(cs, zone) == StrOf(cs) = StrOf(zone)

ClosesValveOffOnly(e) ==
    \/ e["event"] \in {EVENT_DEVICE_IDLE, EVENT_WATERING_COMPLETE}
    \/ e["event"] = EVENT_CHANGE_MODE /\ Has(e, "mode") /\ e["mode"] = "off"

\* lines 452-454: the events that end watering
ClosesValve(e) ==
    \/ e["event"] \in {EVENT_DEVICE_IDLE, EVENT_WATERING_COMPLETE}
    \/ e["event"] = EVENT_CHANGE_MODE /\ Has(e, "mode") /\ e["mode"] \in {"off", "auto"}

\* _on_ws_data: the valve after the call
OnWsDataResult(zone, closed, attrs, preset, e) ==
    LET ev == e["event"]
        same == [closed |-> closed, attrs |-> attrs, preset |-> preset,
                 raised |-> FALSE]
        cs == Get(e, "current_station")
    IN  CASE ClosesValve(e) ->
               [same EXCEPT !.closed = TRUE, !.attrs = Cleared(attrs)]
          [] ev = EVENT_WATERING_IN_PROGRESS ->
               IF cs # NoneVal /\ SameStation(cs, zone)
                  THEN LET r == SetWateringStarted(attrs,
                                   Get(e, ATTR_STARTED_WATERING_AT), cs,
                                   Get(e, "program"), Get(e, "run_time"))
                       IN  [closed |-> FALSE, attrs |-> r.attrs, preset |-> preset,
                            raised |-> r.raised]
                  ELSE IF cs # NoneVal /\ ~closed
                          THEN [same EXCEPT !.closed = TRUE, !.attrs = Cleared(attrs)]
                          ELSE same
          [] ev = EVENT_SET_MANUAL_PRESET_TIME ->
               IF Has(e, "seconds")
                  THEN [same EXCEPT !.preset = e["seconds"].num,
                                    !.attrs = Put(attrs, ATTR_MANUAL_RUNTIME, e["seconds"])]
                  ELSE same
          [] ev = EVENT_PROGRAM_CHANGED ->
               IF Has(e, "lifecycle_phase") /\ e["lifecycle_phase"] = "destroy"
                  THEN [same EXCEPT !.attrs = Put(attrs, ATTR_SMART_WATERING_PLAN, NoneVal)]
                  ELSE IF Has(e, "program")
                          THEN [same EXCEPT !.attrs =
                                   SetWateringProgram(attrs, zone, e["program"])]
                          ELSE same
          [] OTHER -> same

\* device["manual_preset_runtime_sec"] of the devices a valve is made for;
\* None stands for a device without the key
DevicePresets == {NoneVal, NumVal(0), NumVal(90)}

\* the device id every message of the valve carries
ValveDeviceId == "d1"

\* BHyveZoneValve.__init__ and _setup for a zone of an idle device
ValveInit(zone, devPreset) ==
    LET preset == IF devPreset = NoneVal THEN DEFAULT_MANUAL_RUNTIME
                                         ELSE devPreset.num
    IN  /\ valveZoneId = NoneVal
        /\ valveZoneId' = zone
        /\ valveClosed' = TRUE
        /\ valvePreset' = preset
        /\ valveAttrs' = (ATTR_MANUAL_RUNTIME :> NumVal(preset))
        /\ valveCall' = "__init__"
        /\ valveReported' = preset
        /\ valveSent' = <<>>
        /\ UNCHANGED <<valveEvent, valveWasClosed, valveRaised>>

\* _on_ws_data(data)
OnWsData(e) ==
    /\ valveZoneId # NoneVal
    /\ LET r == OnWsDataResult(valveZoneId, valveClosed, valveAttrs, valvePreset, e)
       IN  /\ valveClosed' = r.closed
           /\ valveAttrs' = r.attrs
           /\ valvePreset' = r.preset
           /\ valveRaised' = r.raised
    /\ valveEvent' = e
    /\ valveWasClosed' = valveClosed
    /\ valveCall' = "_on_ws_data"
    /\ valveReported' = IF e["event"] = EVENT_SET_MANUAL_PRESET_TIME /\ Has(e, "seconds")
                           THEN e["seconds"].num ELSE valveReported
    /\ valveSent' = <<>>
    /\ UNCHANGED valveZoneId

RECURSIVE Gcd(_, _)
Gcd(a, b) == IF b = 0 THEN a ELSE Gcd(b, a % b)

\* a number of minutes as the fraction num/den in lowest terms
Minutes(n, d) == [num |-> n \div Gcd(n, d), den |-> d \div Gcd(n, d)]

FloorDiv60(p) == Minutes(p \div 60, 1)

\* line 601: self._manual_preset_runtime / 60, a true division
Div60(p) == Minutes(p, 60)

\* _send_station_message: the payload handed to client.send_message
StationMessage(stations) ==
    ("event" :> EVENT_CHANGE_MODE) @@ ("mode" :> "manual")
      @@ ("device_id" :> ValveDeviceId) @@ ("timestamp" :> "now")
      @@ ("stations" :> stations)

\* start_watering(minutes)
StartWatering(minutes) ==
    /\ valveClosed' = FALSE
    /\ valveSent' = <<StationMessage(
                          <<("station" :> valveZoneId) @@ ("run_time" :> minutes)>>)>>

\* async_open_valve
AsyncOpenValve ==
    /\ valveZoneId # NoneVal
    /\ LET run_time == Div60(valvePreset)
       IN  StartWatering(IF run_time.num = 0 THEN Minutes(5, 1) ELSE run_time)
    /\ valveCall' = "async_open_valve"
    /\ valveEvent' = <<>>
    /\ valveRaised' = FALSE
    /\ UNCHANGED <<valveZoneId, valveAttrs, valvePreset, valveWasClosed, valveReported>>

\* async_close_valve, stop_watering
AsyncCloseValve ==
    /\ valveZoneId # NoneVal
    /\ valveClosed' = TRUE
    /\ valveSent' = <<StationMessage(<<>>)>>
    /\ valveCall' = "async_close_valve"
    /\ valveEvent' = <<>>
    /\ valveRaised' = FALSE
    /\ UNCHANGED <<valveZoneId, valveAttrs, valvePreset, valveWasClosed, valveReported>>

FrameValve == UNCHANGED <<wsVars, coordVars, sensorVars, switchVars, flowVars, utilVars, thrVars,
               restVars>>

NextValve ==
    \/ \E z \in ZoneStations, p \in DevicePresets : ValveInit(z, p) /\ FrameValve
    \/ \E e \in ValveEvents : OnWsData(e) /\ FrameValve
    \/ AsyncOpenValve /\ FrameValve
    \/ AsyncCloseValve /\ FrameValve

SpecValve == InitAll /\ [][NextValve]_vars

(***************************************************************************)
(* Coordinator claims                                                      *)
(***************************************************************************)
DeviceEventStep ==
    /\ Len(patchLog') = Len(patchLog) + 1
    /\ patchLog'[Len(patchLog')].kind = "device"

\* the event names a device of the snapshot d
OfKnownDevice(d, e) ==
    /\ d # EmptyDict
    /\ "device_id" \in DOMAIN e
    /\ e["device_id"] \in DOMAIN d["devices"]

\* snapshot new is snapshot old with only the device record of id patched by e
MergedInto(old, new, id, e) ==
    /\ DOMAIN new = DOMAIN old
    /\ new["programs"] = old["programs"]
    /\ DOMAIN new["devices"] = DOMAIN old["devices"]
    /\ \A x \in DOMAIN old["devices"] \ {id} :
          new["devices"][x] = old["devices"][x]
    /\ new["devices"][id].history = old["devices"][id].history
    /\ new["devices"][id].landscapes = old["devices"][id].landscapes
    /\ new["devices"][id].device = MergeDevice(old["devices"][id].device, e)

\* C5: async_handle_device_event merges then notifies: an event for a device
\* of the current snapshot has its merge applied and the subscribers told
\* exactly once, with the merged snapshot; with no snapshot, no device_id or
\* an unknown device_id the snapshot stays and nobody is told.
C5_MergeThenNotify ==
    [][DeviceEventStep =>
         LET e == patchLog'[Len(patchLog')].ev
         IN  IF OfKnownDevice(data, e)
                THEN /\ MergedInto(data, data', e["device_id"], e)
                     /\ notified' = <<data'>>
                ELSE /\ data' = data
                     /\ notified' = <<>>]_vars

C5_Witness ==
    /\ patchLog # <<>>
    /\ patchLog[Len(patchLog)].kind = "device"
    /\ OfKnownDevice(data, patchLog[Len(patchLog)].ev)
    /\ patchLog[Len(patchLog)].ev["event"] = EVENT_WATERING_IN_PROGRESS
    /\ data["devices"]["d1"].device["status"]["run_mode"] = "manual"
    /\ "watering_status" \in DOMAIN data["devices"]["d1"].device["status"]
    /\ notified = <<data>>
    /\ data # lastPollData

ApplyPatch(d, p) ==
    IF p.kind = "device" THEN ApplyDeviceEvent(d, p.ev)
                         ELSE ApplyProgramEvent(d, p.ev)

RECURSIVE Replay(_, _)
Replay(d, log) ==
    IF log = <<>> THEN d ELSE Replay(ApplyPatch(d, Head(log)), Tail(log))

PollCompletes == pollPc = "device" /\ pollPc' = "idle" /\ pollResult' = "ok"

\* every device and program record of snap is a record of the API answers
\* devs and progs, as the server sent them
FreshFrom(snap, devs, progs) ==
    /\ \A id \in DOMAIN snap["devices"] :
          \E i \in DOMAIN devs : snap["devices"][id].device = devs[i]
    /\ \A id \in DOMAIN snap["programs"] :
          \E i \in DOMAIN progs : snap["programs"][id] = progs[i]

\* C6: the snapshot is always the result of the latest successful poll
\* patched, in arrival order, by exactly the events handled since that poll
\* completed; a completing poll replaces the whole snapshot and discards
\* every event patch applied before its completion, so each record of the
\* new snapshot is as the API last answered it.
C6_LastWriteWins ==
    /\ [](data = Replay(lastPollData, patchLog))
    /\ [][PollCompletes =>
            /\ data' = PollReturn(pollData, clientPrograms')
            /\ lastPollData' = data'
            /\ patchLog' = <<>>
            /\ FreshFrom(data', fetchedDevices', fetchedPrograms')]_vars

\* the part of C6 that the code keeps: replay of the handled events over the
\* snapshot the last poll returned
C6_ReplayOnly ==
    /\ [](data = Replay(lastPollData, patchLog))
    /\ [][PollCompletes =>
            /\ data' = PollReturn(pollData, clientPrograms')
            /\ lastPollData' = data'
            /\ patchLog' = <<>>]_vars

PolledIndex(devs, id) == CHOOSE i \in 1..Len(devs) : IdOf(devs[i]) = id

\* the snapshot holds exactly what the fetches described by outs yielded
IsolatedSnapshot(snap, devs, outs, progs) ==
    /\ DOMAIN snap = {"devices", "programs"}
    /\ DOMAIN snap["devices"] = {IdOf(devs[i]) : i \in 1..Len(devs)} \ {""}
    /\ \A id \in DOMAIN snap["devices"] :
          LET i == PolledIndex(devs, id)
              entry == snap["devices"][id]
          IN  /\ entry.device = devs[i]
              /\ entry.history = IF outs[i].histOk THEN FetchedHistory ELSE <<>>
              /\ DOMAIN entry.landscapes =
                    {IntToStr(ZonesOf(devs[i])[z]["station"]) : z \in outs[i].lsOk}
    /\ DOMAIN snap["programs"] = {IdOf(progs[i]) : i \in 1..Len(progs)} \ {""}
    /\ \A i \in 1..Len(progs) :
          IdOf(progs[i]) # "" => snap["programs"][IdOf(progs[i])] = progs[i]

PollFailsStep ==
    pollPc \in {"devices", "device"} /\ pollPc' = "idle" /\ pollResult' # "ok"

\* C7: a failed history or landscape fetch of one sprinkler leaves that device
\* with history [] or without that landscape and the poll still returns
\* exactly the polled devices and programs that have an id; a failed device
\* list or programs fetch ends the poll with UpdateFailed and no snapshot.
C7_PollIsolatesFailures ==
    [][/\ PollCompletes =>
            IsolatedSnapshot(data', pollDevices, pollOutcomes, clientPrograms')
       /\ PollFailsStep =>
            /\ pollResult' = "UpdateFailed"
            /\ data' = data
            /\ lastPollData' = lastPollData
            /\ notified' = notified]_vars

C7_Witness ==
    /\ pollPc = "idle"
    /\ pollResult = "UpdateFailed"
    /\ patchLog = <<>>
    /\ data # EmptyDict
    /\ DOMAIN data["devices"] = {"d1", "d3"}
    /\ data["devices"]["d1"].history = <<>>
    /\ DOMAIN data["devices"]["d1"].landscapes = {"1"}
    /\ data["devices"]["d3"].device = Flood3
    /\ DOMAIN data["programs"] = {"p1", "p2"}

(***************************************************************************)
(* Sensor claims                                                           *)
(***************************************************************************)
\* the device record of id in the snapshot, as the claim reads it
CurrentRecord(id) ==
    IF data # EmptyDict /\ id \in DOMAIN data["devices"]
       THEN data["devices"][id].device ELSE EmptyDict

\* the three descriptions' value functions, written out on a record
ShownState(rec) ==
    IF "status" \in DOMAIN rec /\ "run_mode" \in DOMAIN rec["status"]
       THEN StrVal(rec["status"]["run_mode"]) ELSE StrVal("unavailable")

ShownTemperature(rec) ==
    IF "status" \in DOMAIN rec /\ "temp_f" \in DOMAIN rec["status"]
       THEN NumVal(rec["status"]["temp_f"]) ELSE NoneVal

ShownBattery(rec) ==
    IF "battery" \notin DOMAIN rec THEN NoneVal
    ELSE IF "percent" \in DOMAIN rec["battery"]
            THEN NumVal(rec["battery"].percent)
            ELSE IF rec["battery"].mv = 2700 THEN NumVal(90) ELSE NumVal(0)

Shown(key, rec) ==
    CASE key = "state" -> ShownState(rec)
      [] key = "temperature" -> ShownTemperature(rec)
      [] key = "battery" -> ShownBattery(rec)

\* C8: a sensor is a stateless view: every read of native_value returns the
\* description's value_fn of the device's current record in the snapshot, so
\* a read after a poll or a merged event shows the new value, and a read
\* changes nothing.
C8_SensorIsView ==
    /\ [](lastRead.read => lastRead.value = Shown(lastRead.key, CurrentRecord(lastRead.id)))
    /\ [][lastRead'.read => UNCHANGED <<wsVars, coordVars, valveVars, switchVars, flowVars, utilVars, thrVars,
               restVars>>]_vars

C8_Witness ==
    /\ lastRead.read
    /\ lastRead.id = "d1"
    /\ lastRead.key = "battery"
    /\ lastRead.value = NumVal(50)
    /\ lastPollData["devices"]["d1"].device["battery"] = [percent |-> 85]
    /\ patchLog # <<>>
    /\ patchLog[Len(patchLog)].ev["event"] = EVENT_BATTERY_STATUS

(***************************************************************************)
(* Valve claims                                                            *)
(***************************************************************************)
\* the latest processed event reported that station cs is watering
WipFor(e) ==
    /\ e # <<>>
    /\ e["event"] = EVENT_WATERING_IN_PROGRESS
    /\ "current_station" \in DOMAIN e

OwnStation(e) == WipFor(e) /\ StrOf(e["current_station"]) = StrOf(valveZoneId)

OtherStation(e) == WipFor(e) /\ StrOf(e["current_station"]) # StrOf(valveZoneId)

AttrIs(k, v) == k \in DOMAIN valveAttrs /\ valveAttrs[k] = v

\* the local time a timestamp of the event denotes, None when it has none
EventLocalTime(e) ==
    IF ATTR_STARTED_WATERING_AT \in DOMAIN e
          /\ e[ATTR_STARTED_WATERING_AT].str = GoodTime
       THEN [instant |-> <<2020, 1, 9, 20, 29, 59>>, tz |-> "local"]
       ELSE NoneVal

WateringAttrsFrom(e) ==
    /\ AttrIs(ATTR_CURRENT_STATION, e["current_station"])
    /\ AttrIs(ATTR_CURRENT_PROGRAM, Get(e, "program"))
    /\ AttrIs(ATTR_CURRENT_RUNTIME, Get(e, "run_time"))
    /\ AttrIs(ATTR_STARTED_WATERING_AT, EventLocalTime(e))

\* C9: after a valve processed a watering_in_progress_notification whose
\* current_station equals its own station in string form (1 matches "1"),
\* it is open and current_station, current_program, current_runtime and
\* started_watering_station_at are set from the event, whatever it was before.
C9_OwnStationOpens ==
    OwnStation(valveEvent) => ~valveClosed /\ WateringAttrsFrom(valveEvent)

TimestampUsable(e) ==
    ATTR_STARTED_WATERING_AT \in DOMAIN e
        => ParseDatetime(e[ATTR_STARTED_WATERING_AT].str) # NoneVal

\* C9, for events whose started_watering_station_at is absent or a datetime
C9_OwnStationOpensUsableTime ==
    (OwnStation(valveEvent) /\ TimestampUsable(valveEvent))
        => ~valveClosed /\ WateringAttrsFrom(valveEvent)

C9_Witness ==
    /\ valveZoneId = StrVal("1")
    /\ OwnStation(valveEvent)
    /\ valveEvent["current_station"] = NumVal(1)
    /\ ~valveWasClosed
    /\ ~valveClosed
    /\ AttrIs(ATTR_CURRENT_STATION, NumVal(1))
    /\ AttrIs(ATTR_STARTED_WATERING_AT, EventLocalTime(valveEvent))
    /\ EventLocalTime(valveEvent) # NoneVal

WateringAttrsCleared ==
    /\ AttrIs(ATTR_CURRENT_STATION, NoneVal)
    /\ AttrIs(ATTR_CURRENT_PROGRAM, NoneVal)
    /\ AttrIs(ATTR_CURRENT_RUNTIME, NoneVal)
    /\ AttrIs(ATTR_STARTED_WATERING_AT, NoneVal)

\* C10: an open valve that processes a watering_in_progress_notification for
\* a different station becomes closed with its watering attributes cleared;
\* a closed valve stays closed (and keeps its attributes) on such an event;
\* an event with no current_station changes nothing.
C10_OtherStationCloses ==
    /\ []((OtherStation(valveEvent) /\ ~valveWasClosed)
              => valveClosed /\ WateringAttrsCleared)
    /\ []((OtherStation(valveEvent) /\ valveWasClosed) => valveClosed)
    /\ [][(valveZoneId # NoneVal /\ OtherStation(valveEvent') /\ valveClosed)
              => valveAttrs' = valveAttrs /\ valvePreset' = valvePreset]_vars
    /\ [][(/\ valveZoneId # NoneVal
           /\ valveEvent' # <<>>
           /\ valveEvent'["event"] = EVENT_WATERING_IN_PROGRESS
           /\ "current_station" \notin DOMAIN valveEvent')
              => /\ valveClosed' = valveClosed
                 /\ valveAttrs' = valveAttrs
                 /\ valvePreset' = valvePreset]_vars

C10_Witness ==
    /\ OtherStation(valveEvent)
    /\ valveZoneId = NumVal(1)
    /\ valveEvent["current_station"] = NumVal(2)
    /\ ~valveWasClosed
    /\ valveClosed
    /\ WateringAttrsCleared

(***************************************************************************)
(* switch.py: BHyveRainDelaySwitch and BHyveProgramSwitch                  *)
(***************************************************************************)
ATTR_CAUSE == "cause"
ATTR_DELAY == "delay"
ATTR_WEATHER_TYPE == "weather_type"
ATTR_STARTED_AT == "started_at"

\* the device id the messages of a switch carry
SwitchDeviceId == "d1"

ExtractRainDelayKeepsAttrs(delay, status, attrs) ==
    IF delay # NoneVal /\ delay.num > 0
       THEN [isOn |-> TRUE, attrs |-> (ATTR_DELAY :> delay), raised |-> FALSE]
       ELSE [isOn |-> FALSE, attrs |-> attrs, raised |-> FALSE]

\* _extract_rain_delay(rain_delay, device_status): _is_on and _attrs after
\* the call, and whether it raised; the time conversion runs after _attrs
\* was set to the delay alone
ExtractRainDelay(delay, status, attrs) ==
    IF delay # NoneVal /\ delay.num > 0
       THEN LET started == OrbitTimeToLocalTime(
                               GetOr(status, "rain_delay_started_at", StrVal("")))
            IN  IF started.raised
                   THEN [isOn |-> TRUE, attrs |-> (ATTR_DELAY :> delay),
                         raised |-> TRUE]
                   ELSE [isOn |-> TRUE, raised |-> FALSE,
                         attrs |-> (ATTR_DELAY :> delay)
                            @@ (ATTR_CAUSE :> GetOr(status, "rain_delay_cause", "Unknown"))
                            @@ (ATTR_WEATHER_TYPE :>
                                  GetOr(status, "rain_delay_weather_type", "Unknown"))
                            @@ (ATTR_STARTED_AT :> started.value)]
       ELSE [isOn |-> FALSE, attrs |-> <<>>, raised |-> FALSE]

\* the devices a rain delay switch is set up from
RainDevices ==
    { ("id" :> SwitchDeviceId),
      ("id" :> SwitchDeviceId) @@ ("status" :> ("rain_delay" :> NumVal(0))),
      ("id" :> SwitchDeviceId)
         @@ ("status" :> (("rain_delay" :> NumVal(24))
                            @@ ("rain_delay_cause" :> "Weather")
                            @@ ("rain_delay_weather_type" :> "Rain")
                            @@ ("rain_delay_started_at" :> StrVal(GoodTime)))),
      ("id" :> SwitchDeviceId) @@ ("status" :> ("rain_delay" :> NumVal(48))) }

\* the events a rain delay switch is handed
RainEvents ==
    { ("event" :> EVENT_RAIN_DELAY) @@ ("delay" :> NumVal(24))
         @@ ("timestamp" :> StrVal(GoodTime)),
      ("event" :> EVENT_RAIN_DELAY) @@ ("delay" :> NumVal(48)),
      ("event" :> EVENT_RAIN_DELAY) @@ ("delay" :> NumVal(24))
         @@ ("timestamp" :> StrVal("not-a-time")),
      ("event" :> EVENT_RAIN_DELAY) @@ ("delay" :> NumVal(0))
         @@ ("timestamp" :> StrVal(GoodTime)),
      ("event" :> EVENT_RAIN_DELAY) @@ ("timestamp" :> StrVal(GoodTime)),
      ("device_id" :> SwitchDeviceId),
      ("event" :> EVENT_CHANGE_MODE) @@ ("mode" :> "off") }

\* _setup(device), run by BHyveDeviceEntity.__init__ and by _refetch_device;
\* a constructor that raises leaves no switch
RainSetup(dev) ==
    LET status == GetOr(dev, "status", EmptyDict)
        rain_delay == Get(status, "rain_delay")
        r == ExtractRainDelay(rain_delay, status, ("device_id" :> SwitchDeviceId))
    IN  /\ rainRaised' = r.raised
        /\ rainSent' = <<>>
        /\ rainEvent' = <<>>
        /\ IF rainCall = "" /\ r.raised
              THEN UNCHANGED <<rainIsOn, rainAttrs, rainCall, rainReported>>
              ELSE /\ rainIsOn' = r.isOn
                   /\ rainAttrs' = r.attrs
                   /\ rainCall' = "_setup"
                   /\ rainReported' = rain_delay
        /\ UNCHANGED rainLocal

\* whether _on_ws_data reaches _extract_rain_delay for the event
ReportsRainDelay(e) ==
    /\ Has(e, "event")
    /\ e["event"] = EVENT_RAIN_DELAY
    /\ Get(e, "delay") # NoneVal

\* BHyveRainDelaySwitch._on_ws_data(data)
RainOnWsData(e) ==
    /\ rainCall # ""
    /\ rainCall' = "_on_ws_data"
    /\ rainEvent' = e
    /\ rainSent' = <<>>
    /\ IF ReportsRainDelay(e)
          THEN LET r == ExtractRainDelay(e["delay"],
                           ("rain_delay_started_at" :> Get(e, "timestamp")),
                           rainAttrs)
               IN  /\ rainIsOn' = r.isOn
                   /\ rainAttrs' = r.attrs
                   /\ rainRaised' = r.raised
                   /\ rainReported' = e["delay"]
          ELSE /\ rainRaised' = FALSE
               /\ UNCHANGED <<rainIsOn, rainAttrs, rainReported>>
    /\ UNCHANGED rainLocal


\* BHyveDeviceEntity._set_rain_delay(hours): the payload sent
SetRainDelay(hours) ==
    ("event" :> EVENT_RAIN_DELAY) @@ ("device_id" :> SwitchDeviceId)
      @@ ("delay" :> hours)

EnableRainDelayHours == 24

EnableRainDelayFortyEight == SetRainDelay(48)

\* BHyveDeviceEntity.enable_rain_delay(hours = 24)
EnableRainDelay == SetRainDelay(EnableRainDelayHours)

\* BHyveDeviceEntity.disable_rain_delay()
DisableRainDelay == SetRainDelay(0)

\* BHyveRainDelaySwitch.async_turn_on
RainTurnOn ==
    /\ rainCall # ""
    /\ rainIsOn' = TRUE
    /\ rainSent' = <<EnableRainDelay>>
    /\ rainCall' = "async_turn_on"
    /\ rainEvent' = <<>>
    /\ rainRaised' = FALSE
    /\ rainLocal' = TRUE
    /\ UNCHANGED <<rainAttrs, rainReported>>

\* BHyveRainDelaySwitch.async_turn_off
RainTurnOff ==
    /\ rainCall # ""
    /\ rainIsOn' = FALSE
    /\ rainSent' = <<DisableRainDelay>>
    /\ rainCall' = "async_turn_off"
    /\ rainEvent' = <<>>
    /\ rainRaised' = FALSE
    /\ rainLocal' = TRUE
    /\ UNCHANGED <<rainAttrs, rainReported>>

rainSwitchVars == <<rainIsOn, rainAttrs, rainCall, rainEvent, rainRaised, rainSent,
                    rainReported, rainLocal>>

progSwitchVars == <<progProgram, progId, progCall, progEvent, progSent, progReported, progLocal>>

\* ---- BHyveProgramSwitch ----
SwitchProgram ==
    ("id" :> "p1") @@ ("device_id" :> SwitchDeviceId) @@ ("name" :> "mornings")
      @@ ("program" :> "a") @@ ("budget" :> 100) @@ ("enabled" :> TRUE)

\* the programs a program switch is constructed with
SwitchPrograms ==
    { SwitchProgram,
      [SwitchProgram EXCEPT !["enabled"] = FALSE],
      ("id" :> "p1") @@ ("device_id" :> SwitchDeviceId) @@ ("program" :> "a") }

\* the events a program switch is handed
ProgEvents ==
    { ("event" :> EVENT_PROGRAM_CHANGED)
         @@ ("program" :> (("id" :> "p1") @@ ("enabled" :> FALSE) @@ ("budget" :> 80))),
      ("event" :> EVENT_PROGRAM_CHANGED)
         @@ ("program" :> [SwitchProgram EXCEPT !["budget"] = 60]),
      ("event" :> EVENT_PROGRAM_CHANGED)
         @@ ("program" :> (("id" :> "p1") @@ ("name" :> "evenings"))),
      ("event" :> EVENT_PROGRAM_CHANGED) @@ ("lifecycle_phase" :> "destroy"),
      ("program" :> [SwitchProgram EXCEPT !["budget"] = 40]),
      ("event" :> EVENT_CHANGE_MODE) @@ ("program" :> [SwitchProgram EXCEPT !["budget"] = 20]) }

\* BHyveProgramSwitch.__init__
ProgConstruct(program) ==
    /\ progProgram = NoneVal
    /\ progProgram' = program
    /\ progId' = GetOr(program, "id", "0")
    /\ progCall' = "__init__"
    /\ progEvent' = <<>>
    /\ progSent' = <<>>
    /\ progReported' = program
    /\ progLocal' = FALSE

ProgIsOnUnlessDisabled(program) ==
    ~(Has(program, "enabled") /\ program["enabled"] = FALSE)

\* is_on: self._program.get("enabled") is True
ProgIsOn(program) == Has(program, "enabled") /\ program["enabled"] = TRUE

StoreProgramMerged(old, payload) == DictUpdate(old, payload)

\* line 237: self._program = program
StoreProgram(old, payload) == payload

\* whether _on_ws_data stores the program of the event
CarriesProgram(e) ==
    /\ Has(e, "event")
    /\ e["event"] = EVENT_PROGRAM_CHANGED
    /\ Has(e, "program")

\* BHyveProgramSwitch._on_ws_data(data)
ProgOnWsData(e) ==
    /\ progProgram # NoneVal
    /\ progCall' = "_on_ws_data"
    /\ progEvent' = e
    /\ progSent' = <<>>
    /\ IF CarriesProgram(e)
          THEN /\ progProgram' = StoreProgram(progProgram, e["program"])
               /\ progReported' = e["program"]
               /\ progLocal' = FALSE
          ELSE UNCHANGED <<progProgram, progReported, progLocal>>
    /\ UNCHANGED progId

SetStateEnabledOnly(program, is_on) == ("enabled" :> is_on)

\* line 165: self._program.update({"enabled": is_on})
SetStateProgram(program, is_on) == Put(program, "enabled", is_on)

\* _set_state(is_on), run by async_turn_on and async_turn_off
ProgSetState(is_on) ==
    /\ progProgram # NoneVal
    /\ progProgram' = SetStateProgram(progProgram, is_on)
    /\ progSent' = <<[program_id |-> progId, program |-> progProgram']>>
    /\ progCall' = IF is_on THEN "async_turn_on" ELSE "async_turn_off"
    /\ progLocal' = TRUE
    /\ progEvent' = <<>>
    /\ UNCHANGED <<progId, progReported>>

FrameSwitch == UNCHANGED <<wsVars, coordVars, sensorVars, valveVars, flowVars, utilVars, thrVars,
               restVars>>

NextSwitch ==
    \/ \E dev \in RainDevices : RainSetup(dev) /\ UNCHANGED progSwitchVars /\ FrameSwitch
    \/ \E e \in RainEvents : RainOnWsData(e) /\ UNCHANGED progSwitchVars /\ FrameSwitch
    \/ RainTurnOn /\ UNCHANGED progSwitchVars /\ FrameSwitch
    \/ RainTurnOff /\ UNCHANGED progSwitchVars /\ FrameSwitch
    \/ \E p \in SwitchPrograms : ProgConstruct(p) /\ UNCHANGED rainSwitchVars /\ FrameSwitch
    \/ \E e \in ProgEvents : ProgOnWsData(e) /\ UNCHANGED rainSwitchVars /\ FrameSwitch
    \/ \E b \in BOOLEAN : ProgSetState(b) /\ UNCHANGED rainSwitchVars /\ FrameSwitch

SpecSwitch == InitAll /\ [][NextSwitch]_vars

\* C11: after a valve processed device_idle, watering_complete, or
\* change_mode with mode off or auto, it is closed and current_station,
\* current_program, current_runtime and started_watering_station_at are None,
\* whatever it was before; change_mode with any other mode leaves the
\* open/closed state as it was.
C11_IdleCloses ==
    /\ valveEvent # <<>>
          /\ ( \/ valveEvent["event"] \in {EVENT_DEVICE_IDLE, EVENT_WATERING_COMPLETE}
               \/ /\ valveEvent["event"] = EVENT_CHANGE_MODE
                  /\ "mode" \in DOMAIN valveEvent
                  /\ valveEvent["mode"] \in {"off", "auto"} )
          => valveClosed /\ WateringAttrsCleared /\ ~valveRaised
    /\ valveEvent # <<>>
          /\ valveEvent["event"] = EVENT_CHANGE_MODE
          /\ ~("mode" \in DOMAIN valveEvent /\ valveEvent["mode"] \in {"off", "auto"})
          => valveClosed = valveWasClosed

C11_Witness ==
    /\ valveEvent # <<>>
    /\ valveEvent["event"] = EVENT_CHANGE_MODE
    /\ "mode" \in DOMAIN valveEvent
    /\ valveEvent["mode"] = "auto"
    /\ ~valveWasClosed
    /\ valveClosed
    /\ WateringAttrsCleared

\* the run time the valve must ask for when p seconds are the preset
ExpectedRunTime(p) == IF p = 0 THEN [num |-> 5, den |-> 1]
                      ELSE CHOOSE m \in [num : 0..p, den : 1..60] :
                              /\ m.num * 60 = p * m.den
                              /\ \A k \in [num : 0..p, den : 1..60] :
                                    k.num * 60 = p * k.den => k.den >= m.den

\* C12: async_open_valve sends one change_mode/manual message for the
\* valve's device with stations [{station: own station, run_time: P/60}], P
\* the preset seconds last reported (by the device at construction, 300 by
\* default, or by a set_manual_preset_runtime event since), and 5 minutes
\* when P is 0; async_close_valve sends the same message with no stations.
C12_OpenCloseMessages ==
    /\ valveCall = "async_open_valve" =>
          /\ Len(valveSent) = 1
          /\ valveSent[1]["event"] = EVENT_CHANGE_MODE
          /\ valveSent[1]["mode"] = "manual"
          /\ valveSent[1]["device_id"] = ValveDeviceId
          /\ valveSent[1]["stations"] =
                <<("station" :> valveZoneId)
                    @@ ("run_time" :> ExpectedRunTime(valveReported))>>
    /\ valveCall = "async_close_valve" =>
          /\ Len(valveSent) = 1
          /\ valveSent[1]["event"] = EVENT_CHANGE_MODE
          /\ valveSent[1]["mode"] = "manual"
          /\ valveSent[1]["device_id"] = ValveDeviceId
          /\ valveSent[1]["stations"] = <<>>

C12_Witness ==
    /\ valveCall = "async_open_valve"
    /\ valveReported = 90
    /\ valveEvent = <<>>
    /\ valveSent[1]["stations"][1]["run_time"] = [num |-> 3, den |-> 2]
    /\ ~valveClosed

(***************************************************************************)
(* Switch claims                                                           *)
(***************************************************************************)
\* the rain delay last reported is greater than 0
RainDelayActive == rainReported # NoneVal /\ rainReported.num > 0

\* the event is one _on_ws_data must ignore: no event field, or a rain_delay
\* without a delay
RainEventIgnored(e) ==
    \/ "event" \notin DOMAIN e
    \/ e["event"] = EVENT_RAIN_DELAY /\ "delay" \notin DOMAIN e

\* C13: with no local turn_on or turn_off, after any _setup calls and
\* processed events the rain delay switch is on exactly when the rain delay
\* last reported (status rain_delay at _setup, delay of a rain_delay event)
\* is greater than 0; on, its attributes carry that delay, off, they are
\* empty; a rain_delay event without delay and an event without an event
\* field change nothing.
C13_RainDelayFollowsReports ==
    /\ [](~rainLocal =>
             /\ rainIsOn = RainDelayActive
             /\ RainDelayActive =>
                   ATTR_DELAY \in DOMAIN rainAttrs /\ rainAttrs[ATTR_DELAY] = rainReported
             /\ ~RainDelayActive => rainAttrs = <<>>)
    /\ [][(rainCall' = "_on_ws_data" /\ RainEventIgnored(rainEvent'))
              => UNCHANGED <<rainIsOn, rainAttrs>>]_vars

C13_Witness ==
    /\ ~rainLocal
    /\ rainCall = "_on_ws_data"
    /\ rainEvent = ("event" :> EVENT_RAIN_DELAY) @@ ("timestamp" :> StrVal(GoodTime))
    /\ rainIsOn
    /\ rainReported = NumVal(48)
    /\ rainAttrs[ATTR_DELAY] = NumVal(48)
    /\ ATTR_STARTED_AT \in DOMAIN rainAttrs

\* C14: async_turn_on sets is_on and sends exactly one rain_delay message for
\* the device with delay 24; async_turn_off clears is_on and sends exactly
\* one rain_delay message with delay 0.
C14_RainDelayCommands ==
    /\ rainCall = "async_turn_on" =>
          /\ rainIsOn
          /\ rainSent = <<("event" :> EVENT_RAIN_DELAY)
                            @@ ("device_id" :> SwitchDeviceId) @@ ("delay" :> 24)>>
    /\ rainCall = "async_turn_off" =>
          /\ ~rainIsOn
          /\ rainSent = <<("event" :> EVENT_RAIN_DELAY)
                            @@ ("device_id" :> SwitchDeviceId) @@ ("delay" :> 0)>>

C14_Witness ==
    /\ rainCall = "async_turn_on"
    /\ rainIsOn
    /\ ~RainDelayActive
    /\ rainAttrs = <<>>
    /\ Len(rainSent) = 1
    /\ rainSent[1]["delay"] = 24

\* program q is program p with enabled set to b and nothing else changed
EnabledSetTo(p, q, b) ==
    /\ DOMAIN q = DOMAIN p \cup {"enabled"}
    /\ q["enabled"] = b
    /\ \A k \in DOMAIN p \ {"enabled"} : q[k] = p[k]

\* C15: async_turn_on (async_turn_off) sets enabled of the stored program to
\* True (False) and calls client.update_program exactly once, with the
\* program's id and the stored program carrying the new enabled value, every
\* other field unchanged.
C15_ProgramCommands ==
    [][\A b \in BOOLEAN :
          progCall' = (IF b THEN "async_turn_on" ELSE "async_turn_off") =>
             /\ EnabledSetTo(progProgram, progProgram', b)
             /\ Len(progSent') = 1
             /\ progSent'[1].program_id = progId
             /\ progSent'[1].program = progProgram']_vars

C15_Witness ==
    /\ progCall = "async_turn_on"
    /\ progReported = ("id" :> "p1") @@ ("enabled" :> FALSE) @@ ("budget" :> 80)
    /\ progSent = <<[program_id |-> "p1",
                     program |-> ("id" :> "p1") @@ ("enabled" :> TRUE) @@ ("budget" :> 80)]>>
    /\ progProgram = progSent[1].program

\* the event is one _on_ws_data must ignore: no event field, or a
\* program_changed without a program
ProgEventIgnored(e) ==
    \/ "event" \notin DOMAIN e
    \/ e["event"] = EVENT_PROGRAM_CHANGED /\ "program" \notin DOMAIN e

\* C16: the stored program of the program switch always equals the program
\* payload of the latest processed program_changed event that carried one (a
\* whole replacement, no merge), or the construction-time program; is_on is
\* true exactly when it has enabled == True; a program_changed event without
\* a program and an event without an event field leave it unchanged.
C16_ProgramFollowsEvents ==
    /\ [](progProgram # NoneVal =>
             /\ progProgram = progReported
             /\ ProgIsOn(progProgram)
                   = ("enabled" \in DOMAIN progReported /\ progReported["enabled"] = TRUE))
    /\ [][(progCall' = "_on_ws_data" /\ ProgEventIgnored(progEvent'))
              => progProgram' = progProgram]_vars

\* C16 amended: as C16 while no async_turn_on or async_turn_off ran since the
\* construction or that event; such a call changes only enabled, and is_on
\* then follows the stored program.
C16_ProgramFollowsEventsUntilCommand ==
    /\ [](progProgram # NoneVal =>
             /\ ~progLocal => progProgram = progReported
             /\ \A k \in DOMAIN progReported \ {"enabled"} :
                    k \in DOMAIN progProgram /\ progProgram[k] = progReported[k]
             /\ DOMAIN progProgram \subseteq DOMAIN progReported \cup {"enabled"}
             /\ ProgIsOn(progProgram)
                   = ("enabled" \in DOMAIN progProgram /\ progProgram["enabled"] = TRUE)
             /\ ~progLocal => ProgIsOn(progProgram)
                   = ("enabled" \in DOMAIN progReported /\ progReported["enabled"] = TRUE))
    /\ [][(progCall' = "_on_ws_data" /\ ProgEventIgnored(progEvent'))
              => progProgram' = progProgram]_vars

C16_Witness ==
    /\ progCall = "_on_ws_data"
    /\ ~progLocal
    /\ progReported = ("id" :> "p1") @@ ("name" :> "evenings")
    /\ progProgram = progReported
    /\ ~ProgIsOn(progProgram)
    /\ progId = "p1"

(***************************************************************************)
(* binary_sensor.py: the flood and temperature-alert sensors of a flood    *)
(* device, views of the coordinator snapshot                               *)
(***************************************************************************)
FloodDevice == ("id" :> "d3") @@ ("type" :> "flood_sensor")

\* the device lists the API answers with: the flood device without status,
\* with both alarm fields, with one of them
FloodDeviceLists ==
    { <<FloodDevice>>,
      <<FloodDevice @@ ("status" :> (("flood_alarm_status" :> "ok")
                                       @@ ("temp_alarm_status" :> "ok")))>>,
      <<FloodDevice @@ ("status" :> ("temp_alarm_status" :> "low_temp_alarm"))>>,
      <<FloodDevice @@ ("status" :> ("flood_alarm_status" :> "alarm"))>> }

\* the fs alarm events of the flood device
FloodEvents ==
    { Ev(EVENT_FS_ALARM, "d3") @@ ("flood_alarm_status" :> "alarm"),
      Ev(EVENT_FS_ALARM, "d3") @@ ("temp_alarm_status" :> "high_temp_alarm"),
      Ev(EVENT_FS_ALARM, "d3") @@ ("flood_alarm_status" :> "ok")
         @@ ("temp_alarm_status" :> "ok"),
      Ev(EVENT_FS_ALARM, "d3") }

\* "alarm" in s, for the status texts of the model
ContainsAlarm(s) == s \in {"alarm", "low_temp_alarm", "high_temp_alarm"}

BinaryIsOnExact(key, dd) ==
    LET status == GetOr(dd, "status", EmptyDict)
    IN  CASE key = "flood" ->
               Has(status, "flood_alarm_status") /\ status["flood_alarm_status"] = "alarm"
          [] key = "temperature_alert" ->
               Has(status, "temp_alarm_status") /\ status["temp_alarm_status"] = "alarm"
          [] OTHER -> FALSE

\* BHyveBinarySensor.is_on for the description key over device_data
BinaryIsOn(key, dd) ==
    LET status == GetOr(dd, "status", EmptyDict)
    IN  CASE key = "flood" ->
               Has(status, "flood_alarm_status") /\ status["flood_alarm_status"] = "alarm"
          [] key = "temperature_alert" ->
               ContainsAlarm(GetOr(status, "temp_alarm_status", ""))
          [] OTHER -> FALSE

\* a read of is_on of the binary sensor `key` of device `id`
ReadBinary(id, key) ==
    /\ lastRead' = [read |-> TRUE, id |-> id, key |-> key,
                    value |-> BinaryIsOn(key, DeviceData(data, id))]
    /\ UNCHANGED <<wsVars, coordVars, valveVars, switchVars, flowVars, utilVars, thrVars,
               restVars>>

NextFlood ==
    \/ \E e \in FloodEvents : HandleDeviceEvent(e) /\ FrameCoord
    \/ PollStart /\ FrameCoord
    \/ \E dl \in FloodDeviceLists : PollFetchDevices(dl) /\ FrameCoord
    \/ PollCachedDevices /\ FrameCoord
    \/ PollFails /\ FrameCoord
    \/ PollDevice("ok", {}) /\ FrameCoord
    \/ \E pl \in ProgramLists : PollFetchPrograms(pl) /\ FrameCoord
    \/ \E key \in {"flood", "temperature_alert"} : ReadBinary("d3", key)

SpecFlood == InitAll /\ [][NextFlood]_vars

\* the status of a device record, {} when it has none
StatusOf(rec) == IF "status" \in DOMAIN rec THEN rec["status"] ELSE <<>>

\* what the two sensors must show for a device record
FloodShown(key, rec) ==
    IF key = "flood"
       THEN /\ "flood_alarm_status" \in DOMAIN StatusOf(rec)
            /\ StatusOf(rec)["flood_alarm_status"] = "alarm"
       ELSE /\ "temp_alarm_status" \in DOMAIN StatusOf(rec)
            /\ StatusOf(rec)["temp_alarm_status"]
                  \in {"alarm", "low_temp_alarm", "high_temp_alarm"}

\* field f of the status after the event e was merged into status old
FieldFollowsEvent(f, e, old, new) ==
    IF f \in DOMAIN e THEN f \in DOMAIN new /\ new[f] = e[f]
    ELSE /\ (f \in DOMAIN new) = (f \in DOMAIN old)
         /\ f \in DOMAIN old => new[f] = old[f]

\* C17: the flood sensor is on exactly when status.flood_alarm_status is
\* 'alarm', the temperature-alert sensor exactly when
\* status.temp_alarm_status contains 'alarm'; with no status or without the
\* field each is off; after a handled fs alarm event the field the event
\* carries has the event's value and a field it lacks keeps its value.
C17_FloodSensorsFollowStatus ==
    /\ [](lastRead.read /\ lastRead.key \in {"flood", "temperature_alert"}
             => lastRead.value = FloodShown(lastRead.key, CurrentRecord(lastRead.id)))
    /\ [][(/\ DeviceEventStep
           /\ patchLog'[Len(patchLog')].ev["event"] = EVENT_FS_ALARM
           /\ OfKnownDevice(data, patchLog'[Len(patchLog')].ev))
              => \A f \in {"flood_alarm_status", "temp_alarm_status"} :
                    FieldFollowsEvent(f, patchLog'[Len(patchLog')].ev,
                        StatusOf(data["devices"]["d3"].device),
                        StatusOf(data'["devices"]["d3"].device))]_vars

C17_Witness ==
    /\ lastRead.read
    /\ lastRead.key = "temperature_alert"
    /\ lastRead.value = TRUE
    /\ patchLog # <<>>
    /\ patchLog[Len(patchLog)].ev["event"] = EVENT_FS_ALARM
    /\ "flood_alarm_status" \in DOMAIN patchLog[Len(patchLog)].ev
    /\ "temp_alarm_status" \notin DOMAIN patchLog[Len(patchLog)].ev
    /\ StatusOf(CurrentRecord("d3"))["temp_alarm_status"] = "low_temp_alarm"
    /\ StatusOf(CurrentRecord("d3"))["flood_alarm_status"] = "alarm"

\* ---------------------------------------------------------------------
\* config_flow.py: ConfigFlow
\* ---------------------------------------------------------------------

MaxFlowCalls == 3

CONF_USERNAME == "username"
CONF_PASSWORD == "password"

Usernames == {"Ann", "bob"}
Passwords == {"pw", "new"}

\* str.lower() on the usernames in use
Lower(u) == IF u = "Ann" THEN "ann" ELSE u

\* what client.login() can do: return True, return False (no token in the
\* response), raise RequestError (client.py lines 127-153), or raise the
\* AuthenticationError the tests make it raise
LoginOutcomes == {"True", "False", "RequestError", "AuthenticationError"}

Credentials == {(CONF_USERNAME :> u) @@ (CONF_PASSWORD :> p) : u \in Usernames, p \in Passwords}

UserInputs == {NoneVal} \cup Credentials

ReauthInputs ==
    {NoneVal}
    \cup {(CONF_USERNAME :> u) : u \in Usernames}
    \cup {(CONF_PASSWORD :> p) : p \in Passwords \cup {""}}
    \cup {(CONF_USERNAME :> "Ann") @@ (CONF_PASSWORD :> "pw")}

InvalidAuth == [base |-> "invalid_auth"]
CannotConnect == [base |-> "cannot_connect"]

\* async_auth (lines 47-65): the value returned for each outcome of login
AsyncAuth(outcome) ==
    IF outcome = "True" THEN NoneVal
    ELSE IF outcome = "False" THEN InvalidAuth
    ELSE CannotConnect

ShowForm(step, errors) == [type |-> "form", step_id |-> step, errors |-> errors]
CreateEntry(title, entryData, options) ==
    [type |-> "create_entry", title |-> title, data |-> entryData, options |-> options]
Abort(reason) == [type |-> "abort", reason |-> reason]

\* user_input.get(key) is truthy
Truthy(input, key) == input # NoneVal /\ Has(input, key) /\ input[key] # ""

\* a fresh ConfigFlow object (lines 39-45)
FlowNew ==
    /\ flowUsername' = NoneVal
    /\ flowData' = EmptyDict
    /\ flowCall' = [method |-> "__init__"]
    /\ flowResult' = NoneVal
    /\ UNCHANGED <<flowEntries, flowReloads, flowCalls>>

\* async_auth called by itself
AsyncAuthCall(input, outcome) ==
    /\ flowCalls < MaxFlowCalls
    /\ flowCalls' = flowCalls + 1
    /\ flowCall' = [method |-> "async_auth", input |-> input, login |-> outcome]
    /\ flowResult' = AsyncAuth(outcome)
    /\ UNCHANGED <<flowUsername, flowData, flowEntries, flowReloads>>

\* async_step_user (lines 67-98); fetch is what client.devices and
\* client.timer_programs do after the login
AsyncStepUser(input, outcome, fetch) ==
    LET called == input # NoneVal
        errors == IF called THEN AsyncAuth(outcome) ELSE NoneVal
        uid    == Lower(input[CONF_USERNAME])
    IN  /\ flowCalls < MaxFlowCalls
        /\ flowCalls' = flowCalls + 1
        /\ flowCall' = [method |-> "async_step_user", input |-> input,
                        login |-> IF called THEN outcome ELSE "not called"]
        /\ UNCHANGED <<flowUsername, flowReloads>>
        /\ IF called /\ errors = NoneVal
           THEN IF Has(flowEntries, uid)
                THEN /\ flowResult' = Abort("already_configured")
                     /\ UNCHANGED <<flowData, flowEntries>>
                ELSE /\ flowData' = input
                     /\ IF fetch = "raises"
                        THEN /\ flowResult' = [type |-> "raised", error |-> "RequestError"]
                             /\ UNCHANGED flowEntries
                        ELSE /\ flowResult' = CreateEntry(input[CONF_USERNAME], input,
                                                          {"DEVICES", "PROGRAMS"})
                             /\ flowEntries' = Put(flowEntries, uid,
                                    [title |-> input[CONF_USERNAME], data |-> input,
                                     options |-> {"DEVICES", "PROGRAMS"}])
           ELSE /\ flowResult' = ShowForm("user", errors)
                /\ UNCHANGED <<flowData, flowEntries>>

ReauthDataBlank(username, password) ==
    (CONF_USERNAME :> username) @@ (CONF_PASSWORD :> "")

\* the data of lines 109-112
ReauthData(username, password) ==
    (CONF_USERNAME :> username) @@ (CONF_PASSWORD :> password)

\* async_step_reauth (lines 100-134)
AsyncStepReauth(input, outcome) ==
    LET records == Truthy(input, CONF_USERNAME)
        called  == ~records /\ flowUsername # NoneVal /\ Truthy(input, CONF_PASSWORD)
        name    == flowUsername.str
        creds   == ReauthData(name, input[CONF_PASSWORD])
        errors  == IF called THEN AsyncAuth(outcome) ELSE NoneVal
        uid     == Lower(name)
    IN  /\ flowCalls < MaxFlowCalls
        /\ flowCalls' = flowCalls + 1
        /\ flowCall' = [method |-> "async_step_reauth", input |-> input,
                        login |-> IF called THEN outcome ELSE "not called"]
        /\ UNCHANGED flowData
        /\ flowUsername' = IF records THEN StrVal(input[CONF_USERNAME]) ELSE flowUsername
        /\ IF called /\ errors = NoneVal
           THEN IF Has(flowEntries, uid)
                THEN /\ flowEntries' = Put(flowEntries, uid,
                                           [flowEntries[uid] EXCEPT !.data = creds])
                     /\ flowReloads' = flowReloads + 1
                     /\ flowResult' = Abort("reauth_successful")
                ELSE /\ flowEntries' = Put(flowEntries, uid,
                                           [title |-> name, data |-> creds,
                                            options |-> {}])
                     /\ flowResult' = CreateEntry(name, creds, {})
                     /\ UNCHANGED flowReloads
           ELSE /\ flowResult' = ShowForm("reauth", errors)
                /\ UNCHANGED <<flowEntries, flowReloads>>

FrameFlow == UNCHANGED <<wsVars, coordVars, sensorVars, valveVars, switchVars, utilVars, thrVars,
               restVars>>

NextFlow ==
    \/ FlowNew /\ FrameFlow
    \/ \E i \in Credentials, o \in LoginOutcomes : AsyncAuthCall(i, o) /\ FrameFlow
    \/ \E i \in UserInputs, o \in LoginOutcomes, f \in {"ok", "raises"} :
          AsyncStepUser(i, o, f) /\ FrameFlow
    \/ \E i \in ReauthInputs, o \in LoginOutcomes : AsyncStepReauth(i, o) /\ FrameFlow

SpecFlow == InitAll /\ [][NextFlow]_vars

\* C18: async_auth returns None when login succeeds, invalid_auth when
\* login returns False or raises AuthenticationError, and cannot_connect
\* when login raises any other exception
C18_AuthMapsOutcomes ==
    flowCall.method = "async_auth" =>
        flowResult = CASE flowCall.login = "True" -> NoneVal
                       [] flowCall.login \in {"False", "AuthenticationError"} -> InvalidAuth
                       [] OTHER -> CannotConnect

\* what async_auth does with an AuthenticationError: the same as with
\* every other exception
C18_AuthMapsEveryExceptionToCannotConnect ==
    flowCall.method = "async_auth" =>
        flowResult = CASE flowCall.login = "True" -> NoneVal
                       [] flowCall.login = "False" -> InvalidAuth
                       [] OTHER -> CannotConnect

C18_Witness ==
    /\ flowCall.method = "async_auth"
    /\ flowCall.login = "AuthenticationError"
    /\ flowResult = CannotConnect

UserStepWith(login) ==
    /\ flowCall'.method = "async_step_user"
    /\ flowCall'.input # NoneVal
    /\ login

\* C19: the user step with valid credentials returns the form of step
\* 'device' and creates no entry yet; a user step whose authentication
\* fails returns the 'user' form with the error and creates no entry
C19_EntryOnlyAfterDeviceStep ==
    /\ [][UserStepWith(flowCall'.login = "True") =>
            /\ flowResult'.type = "form"
            /\ flowResult'.step_id = "device"
            /\ flowEntries' = flowEntries]_vars
    /\ [][UserStepWith(flowCall'.login # "True") =>
            /\ flowResult' = ShowForm("user", AsyncAuth(flowCall'.login))
            /\ flowEntries' = flowEntries]_vars

\* the part of C19 that async_step_user keeps: failed authentication
\* shows the 'user' form with the error and creates no entry
C19_FailedAuthCreatesNoEntry ==
    [][UserStepWith(flowCall'.login # "True") =>
            /\ flowResult' = ShowForm("user", AsyncAuth(flowCall'.login))
            /\ flowResult'.errors # NoneVal
            /\ flowEntries' = flowEntries]_vars

\* the user step itself creates the entry
C19_Witness ==
    /\ flowCall.method = "async_step_user"
    /\ flowCall.login = "True"
    /\ flowResult.type = "create_entry"
    /\ flowResult.title = "Ann"
    /\ Has(flowEntries, "ann")

ReauthStep == flowCall'.method = "async_step_reauth"

\* a call carrying a username only
ReauthUsernameOnly ==
    /\ ReauthStep
    /\ DOMAIN flowCall'.input = {CONF_USERNAME}

\* a later call carrying a password
ReauthPassword ==
    /\ ReauthStep
    /\ flowUsername # NoneVal
    /\ DOMAIN flowCall'.input = {CONF_PASSWORD}
    /\ flowCall'.input[CONF_PASSWORD] # ""

MaxFilterDevs == 3

CONF_DEVICES == "devices"

\* devices as the API lists them: the id is an int or a string
FilterDevice(id, name) == ("id" :> id) @@ ("name" :> name)

FilterDevicePool ==
    {FilterDevice(NumVal(1), "one"), FilterDevice(StrVal("1"), "text one"),
     FilterDevice(StrVal("a"), "a"), FilterDevice(NumVal(2), "two")}

RECURSIVE SeqsUpTo(_, _)
SeqsUpTo(S, n) ==
    IF n = 0 THEN {<<>>}
    ELSE LET shorter == SeqsUpTo(S, n - 1)
         IN  shorter \cup {Append(q, x) : q \in shorter, x \in S}

\* the device lists of the API: no device twice
FilterDeviceLists ==
    {q \in SeqsUpTo(FilterDevicePool, MaxFilterDevs) :
        \A i, j \in 1..Len(q) : q[i] = q[j] => i = j}

\* entry.options: without the devices key, or with a list of configured ids
FilterOptions ==
    {EmptyDict}
    \cup {(CONF_DEVICES :> ids) : ids \in {<<>>, <<"1">>, <<"a", "1">>, <<"1", "1">>, <<"2", "a">>}}

Range(q) == {q[i] : i \in 1..Len(q)}

Returned(v) == [raised |-> "", value |-> v]
Raised(exc) == [raised |-> exc, value |-> NoneVal]

IsConfiguredRaw(options, d) ==
    "str" \in DOMAIN d["id"] /\ d["id"].str \in Range(options[CONF_DEVICES])

\* the condition of the comprehension of line 17, for a device d
IsConfigured(options, d) == StrOf(d["id"]) \in Range(options[CONF_DEVICES])

FilterConfiguredDevicesGet(options, all_devices) ==
    IF ~Has(options, CONF_DEVICES)
       THEN Returned(<<>>)
       ELSE Returned(SelectSeq(all_devices, LAMBDA d : IsConfigured(options, d)))

\* filter_configured_devices (lines 15-17): options[CONF_DEVICES] is
\* evaluated once per device, so it raises only for a device list that is
\* not empty
FilterConfiguredDevices(options, all_devices) ==
    IF all_devices # <<>> /\ ~Has(options, CONF_DEVICES)
       THEN Raised("KeyError")
       ELSE Returned(SelectSeq(all_devices, LAMBDA d : IsConfigured(options, d)))

\* no call is in progress
UtilIdle == utilCall.fn = ""

\* the caller has taken the result of the call
UtilDone ==
    /\ ~UtilIdle
    /\ utilCall' = [fn |-> ""]
    /\ utilResult' = NoneVal

FilterCall(options, all_devices) ==
    /\ UtilIdle
    /\ utilCall' = [fn |-> "filter_configured_devices", options |-> options,
                    all_devices |-> all_devices]
    /\ utilResult' = FilterConfiguredDevices(options, all_devices)

\* orbit_time_to_local_time called by itself
OrbitTimeCall(ts) ==
    /\ UtilIdle
    /\ utilCall' = [fn |-> "orbit_time_to_local_time", timestamp |-> ts]
    /\ utilResult' = OrbitTimeToLocalTime(ts)

FrameUtil ==
    UNCHANGED <<wsVars, coordVars, sensorVars, valveVars, switchVars, flowVars, thrVars,
               restVars>>

\* ---------------------------------------------------------------------
\* python_scripts/bhyve_next_watering.py: next_weekday, get_next_times
\* ---------------------------------------------------------------------

MaxDays == 2

\* a datetime: day counts days, day 0 a Monday, so that weekday() is
\* day % 7; hour and minute; rest is the seconds and microseconds
DateTime(day, hour, minute, rest) ==
    [day |-> day, hour |-> hour, minute |-> minute, rest |-> rest]

Weekday(dt) == dt.day % 7

\* a > b for datetimes
Later(a, b) ==
    \/ a.day > b.day
    \/ a.day = b.day /\ a.hour > b.hour
    \/ a.day = b.day /\ a.hour = b.hour /\ a.minute > b.minute
    \/ a.day = b.day /\ a.hour = b.hour /\ a.minute = b.minute /\ a.rest > b.rest

StartTimeStrings == {"00:00", "07:30", "09:15"}

\* datetime.strptime(start_time, "%H:%M")
Strptime(st) ==
    CASE st = "00:00" -> [hour |-> 0, minute |-> 0]
      [] st = "07:30" -> [hour |-> 7, minute |-> 30]
      [] st = "09:15" -> [hour |-> 9, minute |-> 15]

\* today: every weekday, before, at, between and after the start times
Todays ==
    {DateTime(d, t[1], t[2], t[3]) :
        d \in 0..6, t \in {<<0, 0, 0>>, <<7, 30, 0>>, <<7, 30, 30>>, <<8, 0, 0>>}}

\* programs: days of the Orbit week (0 = Sunday) and start times
NextTimesPrograms ==
    {("frequency" :> [days |-> days]) @@ ("start_times" :> sts) :
        days \in SeqsUpTo(0..6, MaxDays), sts \in SeqsUpTo(StartTimeStrings, 2)}

NextWeekdayNextWeek(day, weekday, start_time) ==
    LET ahead == weekday - Weekday(day)
    IN  DateTime(day.day + (IF ahead <= 0 THEN ahead + 7 ELSE ahead),
                 start_time.hour, start_time.minute, day.rest)

\* next_weekday (lines 4-9): replace() keeps the seconds of day
NextWeekday(day, weekday, start_time) ==
    LET ahead == weekday - Weekday(day)
    IN  DateTime(day.day + (IF ahead < 0 THEN ahead + 7 ELSE ahead),
                 start_time.hour, start_time.minute, day.rest)

\* line 24: the Python weekday of an Orbit day
PythonDay(day) == IF day > 0 THEN day - 1 ELSE 6

\* the inner loop of get_next_times (lines 25-30), from start time j on
RECURSIVE NextTimesOfDay(_, _, _, _)
NextTimesOfDay(today, day, start_times, j) ==
    IF j > Len(start_times) THEN <<>>
    ELSE LET next_day == NextWeekday(today, day, Strptime(start_times[j]))
         IN  (IF Later(next_day, today) THEN <<next_day>> ELSE <<>>)
             \o NextTimesOfDay(today, day, start_times, j + 1)

\* the outer loop (lines 23-30), from configured day i on
RECURSIVE NextTimesFrom(_, _, _, _)
NextTimesFrom(today, configured_days, start_times, i) ==
    IF i > Len(configured_days) THEN <<>>
    ELSE NextTimesOfDay(today, PythonDay(configured_days[i]), start_times, 1)
         \o NextTimesFrom(today, configured_days, start_times, i + 1)

\* get_next_times (lines 18-31)
GetNextTimes(today, program) ==
    NextTimesFrom(today, program["frequency"].days, program["start_times"], 1)

GetNextTimesCall(today, program) ==
    /\ UtilIdle
    /\ utilCall' = [fn |-> "get_next_times", today |-> today, program |-> program]
    /\ utilResult' = Returned(GetNextTimes(today, program))

NextUtil ==
    \/ UtilIdle /\ \E o \in FilterOptions, dl \in FilterDeviceLists :
                      FilterCall(o, dl) /\ FrameUtil
    \/ UtilIdle /\ \E ts \in {NoneVal} \cup {StrVal(t) : t \in Timestamps} :
                      OrbitTimeCall(ts) /\ FrameUtil
    \/ UtilIdle /\ \E t \in Todays, p \in NextTimesPrograms :
                      GetNextTimesCall(t, p) /\ FrameUtil
    \/ UtilDone /\ FrameUtil

SpecUtil == InitAll /\ [][NextUtil]_vars

FilterCalled == utilCall.fn = "filter_configured_devices"

\* the devices of q from position i on, in order, whose id is in ids as a
\* string
RECURSIVE Kept(_, _, _)
Kept(q, ids, i) ==
    IF i > Len(q) THEN <<>>
    ELSE IF StrOf(q[i]["id"]) \in ids
            THEN <<q[i]>> \o Kept(q, ids, i + 1)
            ELSE Kept(q, ids, i + 1)

NoDevicesKey == FilterCalled /\ ~Has(utilCall.options, CONF_DEVICES)

C23_MissingOptionsGraceful == NoDevicesKey => utilResult = Returned(<<>>)

OrbitTimeCalled == utilCall.fn = "orbit_time_to_local_time"

Parseable(ts) == ts # NoneVal /\ ParseDatetime(ts.str) # NoneVal

\* C24: orbit_time_to_local_time returns None, without raising, for None,
\* for the empty string and for any string that is no timestamp; for a
\* timestamp it returns a timezone-aware datetime of the same instant
C24_OrbitTimeNeverRaises ==
    OrbitTimeCalled =>
        /\ ~utilResult.raised
        /\ IF Parseable(utilCall.timestamp)
              THEN /\ utilResult.value.instant = ParseDatetime(utilCall.timestamp.str).utc
                   /\ utilResult.value.tz # ""
              ELSE utilResult.value = NoneVal

\* what orbit_time_to_local_time keeps of C24: None and timestamps
C24_OrbitTimeForNoneAndTimestamps ==
    (OrbitTimeCalled /\ (utilCall.timestamp = NoneVal \/ Parseable(utilCall.timestamp))) =>
        /\ ~utilResult.raised
        /\ IF Parseable(utilCall.timestamp)
              THEN utilResult.value.instant = ParseDatetime(utilCall.timestamp.str).utc
              ELSE utilResult.value = NoneVal

\* the date in today .. today + 6 days that falls on Python weekday w
DateOfWeekday(today, w) == CHOOSE x \in today.day..(today.day + 6) : x % 7 = w

\* the occurrence of Orbit day d at start time st, as <<date, hour, minute>>
Occurrence(today, d, st) ==
    <<DateOfWeekday(today, IF d = 0 THEN 6 ELSE d - 1),
      Strptime(st).hour, Strptime(st).minute>>

\* the occurrence is strictly later than today
StrictlyLater(occ, today) ==
    \/ occ[1] > today.day
    \/ occ[1] = today.day /\ occ[2] * 60 + occ[3] > today.hour * 60 + today.minute

\* the occurrences later than today: by configured day i, then start time j
RECURSIVE FutureOccurrences(_, _, _, _, _)
FutureOccurrences(today, days, sts, i, j) ==
    IF i > Len(days) THEN <<>>
    ELSE IF j > Len(sts) THEN FutureOccurrences(today, days, sts, i + 1, 1)
    ELSE (IF StrictlyLater(Occurrence(today, days[i], sts[j]), today)
             THEN <<Occurrence(today, days[i], sts[j])>> ELSE <<>>)
         \o FutureOccurrences(today, days, sts, i, j + 1)

\* C25: get_next_times yields, for each configured Orbit weekday and each
\* start time, the date of that weekday within today .. today+6 days at
\* that hour and minute, if and only if it is strictly later than today
\* (an occurrence of today that has passed is omitted, not moved a week),
\* ordered by configured day, then by start time
C25_NextTimes ==
    utilCall.fn = "get_next_times" =>
        /\ utilResult.raised = ""
        /\ [k \in 1..Len(utilResult.value) |->
               <<utilResult.value[k].day, utilResult.value[k].hour,
                 utilResult.value[k].minute>>]
           = FutureOccurrences(utilCall.today, utilCall.program["frequency"].days,
                               utilCall.program["start_times"], 1, 1)

\* today is a Monday at 08:00; Monday (Orbit day 1) and Sunday (Orbit
\* day 0) at 07:30 and 09:15: Monday 07:30 has passed and is omitted
C25_Witness ==
    /\ utilCall.fn = "get_next_times"
    /\ utilCall.today = DateTime(0, 8, 0, 0)
    /\ utilCall.program["frequency"].days = <<1, 0>>
    /\ utilCall.program["start_times"] = <<"07:30", "09:15">>
    /\ utilResult.value = <<DateTime(0, 9, 15, 0), DateTime(6, 7, 30, 0), DateTime(6, 9, 15, 0)>>

\* ---------------------------------------------------------------------
\* coordinator.py: watering events and program events
\* ---------------------------------------------------------------------

WateringDevice == ("id" :> "d1") @@ ("type" :> DEVICE_SPRINKLER)

\* the sprinkler as the API lists it: without status, idle, watering
WateringDeviceLists ==
    { <<WateringDevice>>,
      <<WateringDevice @@ ("status" :> ("run_mode" :> "auto"))>>,
      <<WateringDevice @@ ("status" :> (("run_mode" :> "manual")
                                          @@ ("watering_status" :> StrVal("api"))))>> }

WateringEvents ==
    { Ev(EVENT_DEVICE_IDLE, "d1"),
      Ev(EVENT_WATERING_COMPLETE, "d1"),
      Ev(EVENT_WATERING_IN_PROGRESS, "d1") @@ ("program" :> StrVal("e"))
         @@ ("mode" :> "auto"),
      Ev(EVENT_WATERING_IN_PROGRESS, "d1"),
      Ev(EVENT_DEVICE_IDLE, "d9") }

NextWatering ==
    \/ \E e \in WateringEvents : HandleDeviceEvent(e) /\ FrameCoord
    \/ PollStart /\ FrameCoord
    \/ \E dl \in WateringDeviceLists : PollFetchDevices(dl) /\ FrameCoord
    \/ PollCachedDevices /\ FrameCoord
    \/ PollFails /\ FrameCoord
    \/ PollDevice("ok", {}) /\ FrameCoord
    \/ \E pl \in ProgramLists : PollFetchPrograms(pl) /\ FrameCoord

SpecWatering == InitAll /\ [][NextWatering]_vars

\* program_changed events: with a program dictionary, with enabled alone,
\* with both, for an unknown program, with neither, without any id
ProgramChangeEvents ==
    { ("event" :> EVENT_PROGRAM_CHANGED)
         @@ ("program" :> (("id" :> "p1") @@ ("enabled" :> FALSE) @@ ("budget" :> 80))),
      ("event" :> EVENT_PROGRAM_CHANGED) @@ ("program_id" :> "p1") @@ ("enabled" :> FALSE),
      ("event" :> EVENT_PROGRAM_CHANGED) @@ ("program_id" :> "p2") @@ ("enabled" :> TRUE)
         @@ ("program" :> ("name" :> "evenings")),
      ("event" :> EVENT_PROGRAM_CHANGED) @@ ("program_id" :> "p9") @@ ("enabled" :> FALSE),
      ("event" :> EVENT_PROGRAM_CHANGED) @@ ("program_id" :> "p1"),
      ("event" :> EVENT_PROGRAM_CHANGED) @@ ("enabled" :> FALSE) }

ProgramChangeLists == ProgramLists \cup {<<Program2>>}

NextProgram ==
    \/ \E e \in ProgramChangeEvents : HandleProgramEvent(e) /\ FrameCoord
    \/ PollStart /\ FrameCoord
    \/ PollFetchDevices(<<WateringDevice>>) /\ FrameCoord
    \/ PollCachedDevices /\ FrameCoord
    \/ PollFails /\ FrameCoord
    \/ PollDevice("ok", {}) /\ FrameCoord
    \/ \E pl \in ProgramChangeLists : PollFetchPrograms(pl) /\ FrameCoord
    \/ PollCachedPrograms /\ FrameCoord

SpecProgram == InitAll /\ [][NextProgram]_vars

\* the event the step handled
StepEvent == patchLog'[Len(patchLog')].ev

NewStatus(id) == StatusOf(data'["devices"][id].device)

\* the latest event of the log
LatestEvent == patchLog[Len(patchLog)].ev

\* C26: after a device_idle or watering_complete event for a known device
\* its status has run_mode 'off' and no watering_status key; after a
\* watering_in_progress_notification its status has watering_status equal
\* to the event's program (or {} if absent) and run_mode equal to the
\* event's mode (or 'manual' if absent); so, over sequences of these
\* events, watering_status is present exactly when the latest of them was
\* watering_in_progress_notification
C26_WateringStatusFollowsEvents ==
    /\ [][(DeviceEventStep /\ OfKnownDevice(data, StepEvent)) =>
            IF StepEvent["event"] \in {EVENT_DEVICE_IDLE, EVENT_WATERING_COMPLETE}
               THEN /\ NewStatus(StepEvent["device_id"])["run_mode"] = "off"
                    /\ "watering_status" \notin DOMAIN NewStatus(StepEvent["device_id"])
               ELSE /\ "watering_status" \in DOMAIN NewStatus(StepEvent["device_id"])
                    /\ NewStatus(StepEvent["device_id"])["watering_status"] =
                          (IF "program" \in DOMAIN StepEvent
                              THEN StepEvent["program"] ELSE EmptyDictVal)
                    /\ NewStatus(StepEvent["device_id"])["run_mode"] =
                          (IF "mode" \in DOMAIN StepEvent
                              THEN StepEvent["mode"] ELSE "manual")]_vars
    /\ [](\A k \in 1..Len(patchLog) :
            (/\ OfKnownDevice(data, patchLog[k].ev)
             /\ \A j \in (k + 1)..Len(patchLog) : ~OfKnownDevice(data, patchLog[j].ev))
            => ("watering_status" \in DOMAIN StatusOf(CurrentRecord(patchLog[k].ev["device_id"]))
                   <=> patchLog[k].ev["event"] = EVENT_WATERING_IN_PROGRESS))

\* the API listed the sprinkler as watering, a watering_complete event
\* has cleared it
C26_Witness ==
    /\ lastPollData # EmptyDict
    /\ "watering_status" \in DOMAIN StatusOf(lastPollData["devices"]["d1"].device)
    /\ Len(patchLog) = 2
    /\ patchLog[1].ev["event"] = EVENT_WATERING_IN_PROGRESS
    /\ LatestEvent["event"] = EVENT_WATERING_COMPLETE
    /\ StatusOf(CurrentRecord("d1")) = ("run_mode" :> "off")

ProgramEventStep ==
    /\ Len(patchLog') = Len(patchLog) + 1
    /\ patchLog'[Len(patchLog')].kind = "program"

\* the program an event is for: its program_id, or else program.id
ProgramOf(e) ==
    IF "program_id" \in DOMAIN e THEN e["program_id"]
    ELSE IF "program" \in DOMAIN e /\ "id" \in DOMAIN e["program"] THEN e["program"]["id"]
    ELSE ""

\* C27: async_handle_program_event applies an event only to a program of
\* the snapshot, identified by program_id or else by program.id: a program
\* dictionary is merged key by key into the stored program, keys absent
\* from it keep their value; otherwise an enabled field alone replaces the
\* stored enabled; an event for an unknown program, or before the first
\* poll, changes nothing and notifies no subscriber
C27_ProgramEventsPatchKnownPrograms ==
    [][ProgramEventStep =>
         LET e  == StepEvent
             id == ProgramOf(e)
         IN  IF data # EmptyDict /\ id \in DOMAIN data["programs"]
                THEN /\ data'["devices"] = data["devices"]
                     /\ DOMAIN data'["programs"] = DOMAIN data["programs"]
                     /\ \A p \in DOMAIN data["programs"] \ {id} :
                           data'["programs"][p] = data["programs"][p]
                     /\ IF "program" \in DOMAIN e
                           THEN data'["programs"][id] =
                                   [k \in DOMAIN data["programs"][id] \cup DOMAIN e["program"] |->
                                       IF k \in DOMAIN e["program"]
                                          THEN e["program"][k]
                                          ELSE data["programs"][id][k]]
                           ELSE IF "enabled" \in DOMAIN e
                           THEN data'["programs"][id]
                                   = [data["programs"][id] EXCEPT !["enabled"] = e["enabled"]]
                           ELSE data'["programs"][id] = data["programs"][id]
                ELSE /\ data' = data
                     /\ notified' = <<>>]_vars

\* program p2 was enabled with a name of its own; an event with program_id
\* and a program dictionary has merged the name and left enabled alone
C27_Witness ==
    /\ patchLog # <<>>
    /\ LatestEvent = ("event" :> EVENT_PROGRAM_CHANGED) @@ ("program_id" :> "p2")
                        @@ ("enabled" :> TRUE) @@ ("program" :> ("name" :> "evenings"))
    /\ data # EmptyDict
    /\ data["programs"]["p2"] = ("id" :> "p2") @@ ("device_id" :> "d2")
                                   @@ ("enabled" :> TRUE) @@ ("name" :> "evenings")
    /\ notified = <<data>>

\* ---------------------------------------------------------------------
\* websocket.py: stop(), and the connections of one Client
\* ---------------------------------------------------------------------

\* start() has created a running() task in this step
TaskStarted == \E t \in TaskIds : tasks[t].pc = "free" /\ tasks'[t].pc = "created"

\* C28: once OrbitWebsocket.stop() has been called no new connection
\* attempt is ever started and the state stays 'stopped', also when a
\* reconnect timer scheduled by retry() was still pending at the stop
C28_StopIsFinal ==
    [][stopCalled => (wsState' = STATE_STOPPED /\ ~TaskStarted)]_vars

\* C28 for the timer alone: a reconnect timer that falls due after stop()
\* starts nothing
C28_PendingTimerStartsNothing ==
    [][(stopCalled /\ reconnectTimers # <<>> /\ reconnectTimers' = Tail(reconnectTimers))
          => (wsState' = STATE_STOPPED /\ ~TaskStarted)]_vars

\* OrbitWebsocket.start() called on the websocket of the client
StartCall ==
    /\ wsCreated
    /\ Start
    /\ UNCHANGED <<token, hasCallback, wsCreated, wsToken, ws, conns, reconnectTimers,
                   hbTimer, pingTasks, readyQ, rxLog, delivered, idle, stopCalled>>

\* Client.login succeeding on a client that has a websocket (client.py
\* lines 145-152): _websocket becomes a new OrbitWebsocket, which is
\* started; nothing stops or closes the one it replaces, whose connection
\* stays as it is and whose own tasks and timers are followed no further
Relogin(tok) ==
    /\ wsCreated
    /\ token' = tok
    /\ wsToken' = tok
    /\ wsState' = STATE_STARTING
    /\ ws' = 0
    /\ tasks' = [t \in TaskIds |->
                   IF t = 1 THEN [pc |-> "created", conn |-> 0] ELSE FreeTask]
    /\ reconnectTimers' = <<>>
    /\ hbTimer' = -1
    /\ pingTasks' = 0
    /\ stopCalled' = FALSE
    /\ UNCHANGED <<hasCallback, wsCreated, conns, readyQ, rxLog, delivered, idle>>

\* what the connections of this specification receive
ConnMsgs == {[type |-> "TEXT", data |-> "p1"], [type |-> "CLOSED", data |-> "-"]}

NextConn ==
    \/ \E tok \in Tokens : Login(tok) /\ FrameWS
    \/ Relogin("tokB") /\ FrameWS
    \/ StartCall /\ FrameWS
    \/ \E t \in TaskIds : RunningBegin(t) /\ FrameWS
    \/ \E t \in TaskIds : ConnectOk(t) /\ FrameWS
    \/ \E t \in TaskIds : ConnectFail(t) /\ FrameWS
    \/ \E t \in TaskIds : Established(t) /\ FrameWS
    \/ \E t \in TaskIds, msg \in ConnMsgs : Receive(t, msg) /\ FrameWS
    \/ RunReady /\ FrameWS
    \/ HeartbeatFire /\ FrameWS
    \/ Ping /\ FrameWS
    \/ ReconnectFire /\ FrameWS
    \/ Stop /\ FrameWS
    \/ \E d \in 1..Heartbeat : Tick(d) /\ FrameWS

SpecConn == InitAll /\ [][NextConn]_vars

OpenConns == {c \in 1..Len(conns) : conns[c].open}

\* C29: for one Client at most one websocket connection is open at any
\* time, for every sequence of login(), start(), stop() calls and network
\* failures: a second login() on a client whose websocket is running, and
\* a start() on a running websocket, open no second concurrent connection
C29_OneOpenConnection == Cardinality(OpenConns) <= 1

\* C29 for start() alone: as long as login() ran once
C29_OneOpenConnectionOneLogin == (token # "tokB") => Cardinality(OpenConns) <= 1

\* ---------------------------------------------------------------------
\* pybhyve/client.py: _refresh_devices and the callers of devices and
\* get_device
\* ---------------------------------------------------------------------

MaxTicks == 4
MaxRequests == 3

\* the clock advances by half a poll period
ThrStep == API_POLL_PERIOD \div 2

ThrPending == {i \in 1..Len(thrRequests) : thrRequests[i].outcome = "pending"}

\* lines 81-85: the request is issued unless the last poll is recent
RefreshIssues(force, now, last) == force \/ ~(now - last < API_POLL_PERIOD)

\* Client.devices (force_update False) or get_device called by caller c:
\* _refresh_devices up to its await (lines 81-87), or to its return (85)
ThrCall(c, force) ==
    /\ thrCallers[c].pc = "idle"
    /\ IF RefreshIssues(force, thrNow, thrLastPoll)
          THEN /\ Len(thrRequests) < MaxRequests
               /\ thrRequests' = Append(thrRequests,
                     [at |-> thrNow, force |-> force, outcome |-> "pending",
                      alone |-> ThrPending = {}])
               /\ thrCallers' = [thrCallers EXCEPT
                     ![c] = [pc |-> "request", now |-> thrNow, force |-> force,
                             req |-> Len(thrRequests) + 1]]
          ELSE UNCHANGED <<thrRequests, thrCallers>>
    /\ thrLastCall' = [kind |-> "call", caller |-> c, force |-> force, at |-> thrNow,
                       issued |-> RefreshIssues(force, thrNow, thrLastPoll),
                       overlaps |-> ThrPending # {},
                       returned |-> thrCache]
    /\ UNCHANGED <<thrNow, thrLastPoll, thrCache>>

\* the request of caller c is answered (lines 87-91): _devices is the
\* answer, _last_poll_devices the time the call began
ThrResponse(c) ==
    /\ thrCallers[c].pc = "request"
    /\ thrCache' = thrCallers[c].req
    /\ thrLastPoll' = thrCallers[c].now
    /\ thrRequests' = [thrRequests EXCEPT ![thrCallers[c].req].outcome = "ok"]
    /\ thrCallers' = [thrCallers EXCEPT ![c] = [pc |-> "idle", now |-> 0, force |-> FALSE]]
    /\ thrLastCall' = [kind |-> "response", caller |-> c]
    /\ UNCHANGED thrNow

\* the request of caller c raises RequestError (line 78): nothing is stored
ThrRequestFails(c) ==
    /\ thrCallers[c].pc = "request"
    /\ thrRequests' = [thrRequests EXCEPT ![thrCallers[c].req].outcome = "failed"]
    /\ thrCallers' = [thrCallers EXCEPT ![c] = [pc |-> "idle", now |-> 0, force |-> FALSE]]
    /\ thrLastCall' = [kind |-> "error", caller |-> c]
    /\ UNCHANGED <<thrNow, thrLastPoll, thrCache>>

\* time.time() advances
ThrTick ==
    /\ thrNow < API_POLL_PERIOD + MaxTicks * ThrStep
    /\ thrNow' = thrNow + ThrStep
    /\ thrLastCall' = [kind |-> "tick"]
    /\ UNCHANGED <<thrLastPoll, thrCache, thrCallers, thrRequests>>

FrameThr ==
    UNCHANGED <<wsVars, coordVars, sensorVars, valveVars, switchVars, flowVars, utilVars,
                restVars>>

NextThr ==
    \/ \E c \in ThrCallers, force \in BOOLEAN : ThrCall(c, force) /\ FrameThr
    \/ \E c \in ThrCallers : ThrResponse(c) /\ FrameThr
    \/ \E c \in ThrCallers : ThrRequestFails(c) /\ FrameThr
    \/ ThrTick /\ FrameThr

SpecThr == InitAll /\ [][NextThr]_vars

\* the requests that answered, and the time the latest of them was issued
ThrFetched == {i \in 1..Len(thrRequests) : thrRequests[i].outcome = "ok"}

LastFetchAt ==
    CHOOSE t \in {thrRequests[i].at : i \in ThrFetched} :
        \A i \in ThrFetched : thrRequests[i].at <= t

\* a call without force_update made less than a poll period after the last
\* successful fetch
ThrottledCall ==
    /\ thrLastCall.kind = "call"
    /\ ~thrLastCall.force
    /\ LET before == {i \in ThrFetched : i <= Len(thrRequests)}
       IN  /\ before # {}
           /\ thrLastCall.at - LastFetchAt < API_POLL_PERIOD

\* C30: without force_update at most one device-list request is issued in
\* any API_POLL_PERIOD window and a call made less than 300 s after the
\* last successful fetch returns the cached list without a request, also
\* when several callers await devices or get_device concurrently; with
\* force_update=True a request is always issued
C30_DeviceListThrottle ==
    /\ \A i, j \in 1..Len(thrRequests) :
          (i < j /\ ~thrRequests[i].force /\ ~thrRequests[j].force)
             => thrRequests[j].at - thrRequests[i].at >= API_POLL_PERIOD
    /\ ThrottledCall => ~thrLastCall.issued /\ thrLastCall.returned = thrCache
    /\ (thrLastCall.kind = "call" /\ thrLastCall.force) => thrLastCall.issued

\* C30 for callers that never overlap: when every request so far was issued
\* with no other request pending, a request without force_update comes at
\* least a poll period after the answered request before it, and
\* force_update always issues a request
C30_ThrottleWithoutOverlap ==
    /\ \A j \in 2..Len(thrRequests) :
          (/\ ~thrRequests[j].force
           /\ \A k \in 1..j : thrRequests[k].alone
           /\ thrRequests[j - 1].outcome = "ok")
             => thrRequests[j].at - thrRequests[j - 1].at >= API_POLL_PERIOD
    /\ (thrLastCall.kind = "call" /\ thrLastCall.force) => thrLastCall.issued

\* ---------------------------------------------------------------------
\* pybhyve/client.py: the three refresh functions, called one at a time
\* ---------------------------------------------------------------------

CliFns == {"devices", "get_device", "timer_programs", "get_device_history"}

\* devices and timer_programs are properties: they cannot force
CliCalls ==
    {c \in [fn : CliFns, device : CliDeviceIds, force : BOOLEAN] :
        c.fn \in {"devices", "timer_programs"} => (~c.force /\ c.device = "d1")}

\* what the call's refresh function requests
CliPath(fn) ==
    CASE fn \in {"devices", "get_device"} -> "devices"
      [] fn = "timer_programs" -> "programs"
      [] fn = "get_device_history" -> "history"

\* the last-poll timestamp the refresh function of fn compares with
CliLastPoll(fn) ==
    CASE fn \in {"devices", "get_device"} -> cliLastPollDevices
      [] fn = "timer_programs" -> cliLastPollPrograms
      [] fn = "get_device_history" -> cliLastPollHistories

\* lines 82-85, 95-98, 107-110: the request is made unless the last poll
\* is recent
CliRequests(call) == call.force \/ ~(cliNow - CliLastPoll(call.fn) < API_POLL_PERIOD)

\* what the accessor returns from the caches c (lines 160-183)
CliReturn(call, devs, progs, hists) ==
    CASE call.fn \in {"devices", "get_device"} -> NumVal(devs)
      [] call.fn = "timer_programs" -> NumVal(progs)
      [] call.fn = "get_device_history" ->
            IF Has(hists, call.device) THEN NumVal(hists[call.device]) ELSE NoneVal

CliStoreAnyway(call, ok, n) ==
    /\ cliDevices' = IF CliPath(call.fn) = "devices" /\ ok THEN n ELSE cliDevices
    /\ cliLastPollDevices' = IF CliPath(call.fn) = "devices" THEN cliNow
                             ELSE cliLastPollDevices
    /\ cliPrograms' = IF CliPath(call.fn) = "programs" /\ ok THEN n ELSE cliPrograms
    /\ cliLastPollPrograms' = IF CliPath(call.fn) = "programs" THEN cliNow
                              ELSE cliLastPollPrograms
    /\ cliHistories' = IF CliPath(call.fn) = "history" /\ ok
                       THEN Put(cliHistories, call.device, n) ELSE cliHistories
    /\ cliLastPollHistories' = IF CliPath(call.fn) = "history" THEN cliNow
                               ELSE cliLastPollHistories

\* lines 87-91, 100-103, 112-120: the answer n of the request and the time
\* the call began are stored after the await, so not when _request raises
CliStore(call, ok, n) ==
    /\ cliDevices' = IF CliPath(call.fn) = "devices" /\ ok THEN n ELSE cliDevices
    /\ cliLastPollDevices' = IF CliPath(call.fn) = "devices" /\ ok THEN cliNow
                             ELSE cliLastPollDevices
    /\ cliPrograms' = IF CliPath(call.fn) = "programs" /\ ok THEN n ELSE cliPrograms
    /\ cliLastPollPrograms' = IF CliPath(call.fn) = "programs" /\ ok THEN cliNow
                              ELSE cliLastPollPrograms
    /\ cliHistories' = IF CliPath(call.fn) = "history" /\ ok
                       THEN Put(cliHistories, call.device, n) ELSE cliHistories
    /\ cliLastPollHistories' = IF CliPath(call.fn) = "history" /\ ok THEN cliNow
                               ELSE cliLastPollHistories

\* one call of devices, get_device, timer_programs or get_device_history,
\* from its first line to its return or to the RequestError of _request;
\* the answer of a request is named by the time of the request
CliCall(call, ok) ==
    /\ IF CliRequests(call)
          THEN CliStore(call, ok, cliNow)
          ELSE /\ ok
               /\ UNCHANGED <<cliDevices, cliLastPollDevices, cliPrograms,
                              cliLastPollPrograms, cliHistories, cliLastPollHistories>>
    /\ cliLastCall' = [fn |-> call.fn, device |-> call.device, force |-> call.force,
                       at |-> cliNow, requested |-> CliRequests(call),
                       stale |-> ~Has(cliHistories, call.device)
                                 \/ ~(cliNow - cliHistories[call.device] < API_POLL_PERIOD),
                       raised |-> IF CliRequests(call) /\ ~ok THEN "RequestError" ELSE "",
                       returned |-> IF CliRequests(call) /\ ~ok THEN NoneVal
                                    ELSE CliReturn(call, cliDevices', cliPrograms',
                                                   cliHistories')]
    /\ UNCHANGED cliNow

\* time.time() advances
CliTick ==
    /\ cliNow < API_POLL_PERIOD + MaxTicks * ThrStep
    /\ cliNow' = cliNow + ThrStep
    /\ cliLastCall' = [fn |-> "tick"]
    /\ UNCHANGED <<cliDevices, cliLastPollDevices, cliPrograms, cliLastPollPrograms,
                   cliHistories, cliLastPollHistories>>

FrameCli ==
    UNCHANGED <<wsVars, coordVars, sensorVars, valveVars, switchVars, flowVars, utilVars,
                thrVars, entVars, zvVars, rdVars>>

NextCli ==
    \/ \E call \in CliCalls, ok \in BOOLEAN : CliCall(call, ok) /\ FrameCli
    \/ CliTick /\ FrameCli

SpecCli == InitAll /\ [][NextCli]_vars

HistoryCalled ==
    /\ cliLastCall.fn = "get_device_history"
    /\ ~cliLastCall.force

\* C31: get_device_history(d) without force_update fetches d's history
\* whenever d's own history has not been fetched within the last
\* API_POLL_PERIOD and returns d's history; a recent fetch for another
\* device neither suppresses the fetch nor makes the call return no data
C31_HistoryPerDevice ==
    HistoryCalled =>
        /\ cliLastCall.stale => cliLastCall.requested
        /\ cliLastCall.raised = "" => cliLastCall.returned # NoneVal

\* what holds instead: the call returns whatever the cache has for d, and
\* a call that requests stores the answer under d
C31_HistoryFromCache ==
    (HistoryCalled /\ cliLastCall.raised = "") =>
        /\ cliLastCall.returned = IF Has(cliHistories, cliLastCall.device)
                                  THEN NumVal(cliHistories[cliLastCall.device])
                                  ELSE NoneVal
        /\ cliLastCall.requested => cliLastCall.returned = NumVal(cliLastCall.at)

cliCaches == <<cliDevices, cliLastPollDevices, cliPrograms, cliLastPollPrograms,
               cliHistories, cliLastPollHistories>>

\* the call made last ended with the RequestError of its request
RequestFailed(c) == c.fn \in CliFns /\ c.raised = "RequestError"

SIGNAL_UPDATE_DEVICE == "bhyve_update_device_{}"
SIGNAL_UPDATE_PROGRAM == "bhyve_update_program_{}"

\* str.format of a signal template with one id
Format(template, id) == [template |-> template, arg |-> id.str]

\* a dict with the key k absent, or holding one of the values V
OptField(k, V) == {EmptyDict} \cup {k :> v : v \in V}

\* ids of devices and of programs, and JSON null
RouteIds == {NoneVal, StrVal("a"), StrVal("b")}

RouteNames ==
    {StrVal(EVENT_PROGRAM_CHANGED), StrVal(EVENT_RAIN_DELAY),
     StrVal(EVENT_WATERING_IN_PROGRESS)}

RoutePrograms ==
    {[dict |-> d @@ i] : d \in OptField("device_id", RouteIds), i \in OptField("id", RouteIds)}

\* the messages of the websocket the callback is given
RouteEvents ==
    {e @@ d @@ pr : e \in OptField("event", RouteNames),
                    d \in OptField("device_id", RouteIds),
                    pr \in OptField("program", RoutePrograms)}

\* async_dispatcher_send(hass, signal.format(id), id, data)
DispatcherSend(template, id, ev) ==
    [signal |-> Format(template, id), id |-> id, event |-> ev]

AsyncUpdateCallbackTopLevel(ev) ==
    LET device_id == Get(ev, "device_id")
        program_id == IF Get(ev, "event") = StrVal(EVENT_PROGRAM_CHANGED)
                      THEN Get(GetOr(ev, "program", EmptyDictVal).dict, "id")
                      ELSE NoneVal
    IN  (IF device_id # NoneVal
         THEN <<DispatcherSend(SIGNAL_UPDATE_DEVICE, device_id, ev)>> ELSE <<>>)
        \o (IF program_id # NoneVal
            THEN <<DispatcherSend(SIGNAL_UPDATE_PROGRAM, program_id, ev)>> ELSE <<>>)

\* lines 83-106, the packet dump of lines 84-87 left out: the signals
\* the callback sends, in order
AsyncUpdateCallback(ev) ==
    LET isProgram == Get(ev, "event") = StrVal(EVENT_PROGRAM_CHANGED)
        program == GetOr(ev, "program", EmptyDictVal).dict
        device_id == IF isProgram THEN Get(program, "device_id") ELSE Get(ev, "device_id")
        program_id == IF isProgram THEN Get(program, "id") ELSE NoneVal
    IN  (IF device_id # NoneVal
         THEN <<DispatcherSend(SIGNAL_UPDATE_DEVICE, device_id, ev)>> ELSE <<>>)
        \o (IF program_id # NoneVal
            THEN <<DispatcherSend(SIGNAL_UPDATE_PROGRAM, program_id, ev)>> ELSE <<>>)

AsyncUpdateCallbackCall(ev) ==
    /\ UtilIdle
    /\ utilCall' = [fn |-> "async_update_callback", event |-> ev]
    /\ utilResult' = Returned(AsyncUpdateCallback(ev))

NextRoute ==
    \/ UtilIdle /\ \E ev \in RouteEvents : AsyncUpdateCallbackCall(ev) /\ FrameUtil
    \/ UtilDone /\ FrameUtil

SpecRoute == InitAll /\ [][NextRoute]_vars

RouteCalled == utilCall.fn = "async_update_callback"

\* the sends of the call on the signals of one template
SendsOn(template) ==
    {i \in 1..Len(utilResult.value) : utilResult.value[i].signal.template = template}

\* the id the dict d names under k: a string, or none when the key is
\* absent or null
Named(d, k) == IF Has(d, k) /\ d[k] # NoneVal THEN {d[k].str} ELSE {}

\* C33: a program_changed event is dispatched once to the device signal of
\* program.device_id and once to the program signal of program.id; every
\* other event once to the device signal of its top-level device_id and to
\* no program signal; no send for an absent id, and none to a device or
\* program other than the one named
C33_EventRouting ==
    RouteCalled =>
        LET ev == utilCall.event
            isProgram == Has(ev, "event") /\ ev["event"].str = EVENT_PROGRAM_CHANGED
            program == IF Has(ev, "program") THEN ev["program"].dict ELSE EmptyDict
            devices == IF isProgram THEN Named(program, "device_id")
                       ELSE Named(ev, "device_id")
            programs == IF isProgram THEN Named(program, "id") ELSE {}
        IN  /\ Cardinality(SendsOn(SIGNAL_UPDATE_DEVICE)) = Cardinality(devices)
            /\ Cardinality(SendsOn(SIGNAL_UPDATE_PROGRAM)) = Cardinality(programs)
            /\ \A i \in SendsOn(SIGNAL_UPDATE_DEVICE) :
                  utilResult.value[i].signal.arg \in devices
            /\ \A i \in SendsOn(SIGNAL_UPDATE_PROGRAM) :
                  utilResult.value[i].signal.arg \in programs
            /\ \A i \in 1..Len(utilResult.value) :
                  /\ utilResult.value[i].event = ev
                  /\ utilResult.value[i].id.str = utilResult.value[i].signal.arg
                  /\ utilResult.value[i].signal.template
                        \in {SIGNAL_UPDATE_DEVICE, SIGNAL_UPDATE_PROGRAM}

\* a program_changed event whose program names device a and program b,
\* with b as its top-level device_id, went to device a and program b
C33_Witness ==
    /\ RouteCalled
    /\ Get(utilCall.event, "event") = StrVal(EVENT_PROGRAM_CHANGED)
    /\ Get(utilCall.event, "device_id") = StrVal("b")
    /\ Has(utilCall.event, "program")
    /\ utilCall.event["program"] = [dict |-> ("device_id" :> StrVal("a")) @@ ("id" :> StrVal("b"))]
    /\ Len(utilResult.value) = 2

\* ---------------------------------------------------------------------
\* __init__.py: BHyveDeviceEntity.async_added_to_hass.update and
\* BHyveWebsocketEntity.async_update
\* ---------------------------------------------------------------------

MaxArrivals == 3

\* the names of the events dispatched to the entity
EntEventNames ==
    {EVENT_CHANGE_MODE, EVENT_DEVICE_IDLE, EVENT_PROGRAM_CHANGED,
     EVENT_SET_MANUAL_PRESET_TIME, EVENT_WATERING_COMPLETE, EVENT_WATERING_IN_PROGRESS,
     EVENT_RAIN_DELAY, "device_connected", "device_disconnected"}

\* valve.py lines 432-440
ValveHandledEvents ==
    {EVENT_CHANGE_MODE, EVENT_DEVICE_IDLE, EVENT_PROGRAM_CHANGED,
     EVENT_SET_MANUAL_PRESET_TIME, EVENT_WATERING_COMPLETE, EVENT_WATERING_IN_PROGRESS}

\* the parameters, self apart, of the _should_handle_event of the class:
\* __init__.py line 218 (event_name), valve.py line 432 (event_name, _data)
ShouldHandleParams(kind) == IF kind = "BHyveZoneValve" THEN 2 ELSE 1

\* what _should_handle_event of the class returns for an event name
ShouldHandleEvent(kind, name) ==
    IF kind = "BHyveZoneValve" THEN name \in ValveHandledEvents ELSE TRUE

\* an entity of the class is made (lines 208-210: an empty queue) and added
\* to hass (lines 291-313: update is connected to the signal of its device)
AsyncAddedToHass(kind) ==
    /\ entKind = ""
    /\ entKind' = kind
    /\ entLast' = [step |-> "async_added_to_hass", raised |-> ""]
    /\ UNCHANGED <<entAvailable, entQueue, entScheduled, entArrived, entProcessed>>

\* update(device_id, data) of lines 295-309: line 302 calls
\* self._should_handle_event(event), with the one argument
Update(ev) ==
    /\ entKind # ""
    /\ Len(entArrived) < MaxArrivals
    /\ entArrived' = Append(entArrived, ev)
    /\ entAvailable' = CASE ev.event = "device_disconnected" -> FALSE
                         [] ev.event = "device_connected" -> TRUE
                         [] OTHER -> entAvailable
    /\ IF ShouldHandleParams(entKind) # 1
          THEN /\ entLast' = [step |-> "update", raised |-> "TypeError"]
               /\ UNCHANGED <<entQueue, entScheduled>>
          ELSE /\ entLast' = [step |-> "update", raised |-> ""]
               /\ IF ShouldHandleEvent(entKind, ev.event)
                     THEN /\ entQueue' = Append(entQueue, ev)
                          /\ entScheduled' = entScheduled + 1
                     ELSE UNCHANGED <<entQueue, entScheduled>>
    /\ UNCHANGED <<entKind, entProcessed>>

\* async_update (lines 222-228), run for an update that was scheduled: the
\* queue is copied and emptied, the copy passed to _on_ws_data in order
EntAsyncUpdate ==
    /\ entScheduled > 0
    /\ entScheduled' = entScheduled - 1
    /\ entProcessed' = entProcessed \o entQueue
    /\ entQueue' = <<>>
    /\ entLast' = [step |-> "async_update", raised |-> ""]
    /\ UNCHANGED <<entKind, entAvailable, entArrived>>

FrameEnt ==
    UNCHANGED <<wsVars, coordVars, sensorVars, valveVars, switchVars, flowVars, utilVars,
                thrVars, cliVars, zvVars, rdVars>>

NextEnt ==
    \/ \E kind \in EntKinds : AsyncAddedToHass(kind) /\ FrameEnt
    \/ \E name \in EntEventNames :
          Update([event |-> name, n |-> Len(entArrived) + 1]) /\ FrameEnt
    \/ EntAsyncUpdate /\ FrameEnt

SpecEnt == InitAll /\ [][NextEnt]_vars

\* the event names the entity's class is meant to accept
Accepted(ev) == entKind = "BHyveZoneValve" => ev.event \in ValveHandledEvents

\* C34: an event dispatched to the entity is queued exactly when its
\* _should_handle_event accepts its name (for a zone valve the six names of
\* ValveHandledEvents); the queued events reach _on_ws_data once each, in
\* arrival order, and the queue is empty after each async_update
C34_EventQueue ==
    /\ entProcessed \o entQueue = SelectSeq(entArrived, Accepted)
    /\ entLast.step = "async_update" => entQueue = <<>>
    /\ entLast.raised = ""

\* the same for the entity whose _should_handle_event takes the one
\* argument update passes
C34_EventQueueOfBaseEntity ==
    entKind = "BHyveDeviceEntity" =>
        /\ entProcessed \o entQueue = entArrived
        /\ entLast.step = "async_update" => entQueue = <<>>
        /\ entLast.raised = ""

\* ---------------------------------------------------------------------
\* valve.py: the zone valves of one device, each with its own queue
\* ---------------------------------------------------------------------

MaxStream == 3

\* the events of the device that open or close valves; a notification may
\* lack current_station or name a station without a valve
ZvEvents ==
    {("event" :> EVENT_WATERING_IN_PROGRESS) @@ st :
        st \in {EmptyDict} \cup {("current_station" :> NumVal(x)) : x \in 1..(MaxValves + 1)}}
    \cup
    { ("event" :> EVENT_DEVICE_IDLE),
      ("event" :> EVENT_WATERING_COMPLETE),
      ("event" :> EVENT_CHANGE_MODE) @@ ("mode" :> "off"),
      ("event" :> EVENT_CHANGE_MODE) @@ ("mode" :> "auto"),
      ("event" :> EVENT_CHANGE_MODE) @@ ("mode" :> "manual") }

\* _on_ws_data of the valve of station z for each event of q from i on:
\* its _attr_is_closed after the last
RECURSIVE ZvProcess(_, _, _, _)
ZvProcess(z, closed, q, i) ==
    IF i > Len(q) THEN closed
    ELSE ZvProcess(z,
                   OnWsDataResult(NumVal(z), closed, EmptyDict,
                                  DEFAULT_MANUAL_RUNTIME, q[i]).closed,
                   q, i + 1)

\* the event is dispatched to the signal of the device: the update callback
\* of every valve queues it
ZvDispatch(e) ==
    /\ Len(zvStream) < MaxStream
    /\ zvStream' = Append(zvStream, e)
    /\ zvQueue' = [z \in ZvStations |-> Append(zvQueue[z], e)]
    /\ zvLast' = [step |-> "update"]
    /\ UNCHANGED <<zvClosed, zvCommanded>>

\* async_update of the valve of station z (__init__.py lines 222-228)
ZvAsyncUpdate(z) ==
    /\ zvQueue[z] # <<>>
    /\ zvClosed' = [zvClosed EXCEPT ![z] = ZvProcess(z, zvClosed[z], zvQueue[z], 1)]
    /\ zvQueue' = [zvQueue EXCEPT ![z] = <<>>]
    /\ zvLast' = [step |-> "async_update", station |-> z]
    /\ UNCHANGED <<zvStream, zvCommanded>>

\* start_watering (lines 587-591) and stop_watering (lines 593-597) of the
\* valve of station z: _attr_is_closed is set before the message is sent
ZvStartWatering(z) ==
    /\ zvClosed' = [zvClosed EXCEPT ![z] = FALSE]
    /\ zvCommanded' = TRUE
    /\ zvLast' = [step |-> "start_watering", station |-> z]
    /\ UNCHANGED <<zvQueue, zvStream>>

ZvStopWatering(z) ==
    /\ zvClosed' = [zvClosed EXCEPT ![z] = TRUE]
    /\ zvCommanded' = TRUE
    /\ zvLast' = [step |-> "stop_watering", station |-> z]
    /\ UNCHANGED <<zvQueue, zvStream>>

FrameZv ==
    UNCHANGED <<wsVars, coordVars, sensorVars, valveVars, switchVars, flowVars, utilVars,
                thrVars, cliVars, entVars, rdVars>>

NextZv ==
    \/ \E e \in ZvEvents : ZvDispatch(e) /\ FrameZv
    \/ \E z \in ZvStations : ZvAsyncUpdate(z) /\ FrameZv
    \/ \E z \in ZvStations : ZvStartWatering(z) /\ FrameZv
    \/ \E z \in ZvStations : ZvStopWatering(z) /\ FrameZv

SpecZv == InitAll /\ [][NextZv]_vars

ZvOpen == {z \in ZvStations : ~zvClosed[z]}

ZvAllProcessed == \A z \in ZvStations : zvQueue[z] = <<>>

ZvEnds(e) ==
    \/ e["event"] \in {EVENT_DEVICE_IDLE, EVENT_WATERING_COMPLETE}
    \/ e["event"] = EVENT_CHANGE_MODE /\ e["mode"] \in {"off", "auto"}

\* the stations named by the latest watering_in_progress_notification of
\* the first i events that no device_idle, watering_complete or change_mode
\* off/auto followed: one station, or none
RECURSIVE ZvWatering(_, _)
ZvWatering(q, i) ==
    IF i = 0 THEN {}
    ELSE IF ZvEnds(q[i]) THEN {}
    ELSE IF q[i]["event"] = EVENT_WATERING_IN_PROGRESS
         THEN IF Has(q[i], "current_station") THEN {q[i]["current_station"].num} ELSE {}
    ELSE ZvWatering(q, i - 1)

\* C35: of the zone valves of one device fed the same events at most one
\* is open at any time, and once every valve has processed every event the
\* open valve, if any, is that of current_station of the latest
\* watering_in_progress_notification not followed by device_idle,
\* watering_complete or change_mode off/auto
C35_OneValveOpen ==
    /\ Cardinality(ZvOpen) <= 1
    /\ ZvAllProcessed => ZvOpen \subseteq ZvWatering(zvStream, Len(zvStream))

\* the station named by the latest notification that names one and that
\* none of those events followed
RECURSIVE ZvWateringNamed(_, _)
ZvWateringNamed(q, i) ==
    IF i = 0 THEN {}
    ELSE IF ZvEnds(q[i]) THEN {}
    ELSE IF q[i]["event"] = EVENT_WATERING_IN_PROGRESS /\ Has(q[i], "current_station")
         THEN {q[i]["current_station"].num}
    ELSE ZvWateringNamed(q, i - 1)

\* what holds instead: without start_watering and stop_watering, once every
\* valve has processed every event, the open valves are exactly the valve
\* of the station the latest notification with a current_station names
C35_OneValveOpenWhenProcessed ==
    (ZvAllProcessed /\ ~zvCommanded) =>
        ZvOpen = ZvWateringNamed(zvStream, Len(zvStream)) \cap ZvStations

\* C35 for events alone, no start_watering or stop_watering
C35_OneValveOpenEventsOnly == ~zvCommanded => C35_OneValveOpen

\* ---------------------------------------------------------------------
\* valve.py: start_watering, stop_watering and the sending of their message
\* ---------------------------------------------------------------------

\* what becomes of a payload given to Client.send_message: written to the
\* socket; dropped by OrbitWebsocket.send because the socket is closed
\* (websocket.py lines 150-152); or send_str raises and the error passes
\* through _send_station_message (valve.py lines 515-517)
SendOutcomes == {"sent", "closed", "error"}

\* _send_station_message (lines 500-517) with that outcome
SendStationMessage(stations, outcome) ==
    /\ valveSent' = IF outcome = "sent" THEN <<StationMessage(stations)>> ELSE <<>>
    /\ valveRaised' = (outcome = "error")

\* start_watering(minutes), lines 587-591
StartWateringCall(minutes, outcome) ==
    /\ valveZoneId # NoneVal
    /\ valveWasClosed' = valveClosed
    /\ valveClosed' = FALSE
    /\ SendStationMessage(<<("station" :> valveZoneId) @@ ("run_time" :> minutes)>>,
                          outcome)
    /\ valveCall' = "start_watering"
    /\ valveEvent' = <<>>
    /\ UNCHANGED <<valveZoneId, valveAttrs, valvePreset, valveReported>>

\* stop_watering(), lines 593-597
StopWateringCall(outcome) ==
    /\ valveZoneId # NoneVal
    /\ valveWasClosed' = valveClosed
    /\ valveClosed' = TRUE
    /\ SendStationMessage(<<>>, outcome)
    /\ valveCall' = "stop_watering"
    /\ valveEvent' = <<>>
    /\ UNCHANGED <<valveZoneId, valveAttrs, valvePreset, valveReported>>

NextCommand ==
    \/ \E z \in ZoneStations, p \in DevicePresets : ValveInit(z, p) /\ FrameValve
    \/ \E e \in ValveEvents : OnWsData(e) /\ FrameValve
    \/ \E m \in {Minutes(5, 1), Minutes(3, 2)}, o \in SendOutcomes :
          StartWateringCall(m, o) /\ FrameValve
    \/ \E o \in SendOutcomes : StopWateringCall(o) /\ FrameValve

SpecCommand == InitAll /\ [][NextCommand]_vars

WateringCommand == valveCall \in {"start_watering", "stop_watering"}

\* C36: start_watering and stop_watering change is_closed only if the
\* command was sent: when sending raises, or the websocket is closed and
\* the payload dropped, is_closed is what it was before the call
C36_StateChangesOnlyWhenSent ==
    (WateringCommand /\ valveSent = <<>>) => valveClosed = valveWasClosed

\* what holds instead: is_closed is set before the message is sent, so it
\* is open after start_watering and closed after stop_watering whatever
\* became of the message
C36_StateSetBeforeSend ==
    /\ valveCall = "start_watering" => ~valveClosed
    /\ valveCall = "stop_watering" => valveClosed

\* ---------------------------------------------------------------------
\* switch.py: BHyveRainDelaySwitch._update_device_soon and _update_device
\* ---------------------------------------------------------------------

MaxRainEvents == 3

\* the delay of async_call_later at line 298, in seconds
RefetchDelay == 1

RdScheduled == {i \in 1..Len(rdLog) : rdLog[i].what = "scheduled"}

\* calling the cancel of a timer: a timer that fired already is not pending
CancelTimer(timers, n) == [m \in DOMAIN timers \ {n} |-> timers[m]]

UpdateDeviceSoonNoCancel ==
    LET n == Cardinality(RdScheduled) + 1
    IN  /\ rdTimers' = (n :> (rdNow + RefetchDelay)) @@ rdTimers
        /\ rdCb' = n
        /\ rdLog' = Append(rdLog, [what |-> "scheduled", timer |-> n, at |-> rdNow])

\* _update_device_soon (lines 295-298): the timer _update_device_cb holds
\* is cancelled and a new one is scheduled
UpdateDeviceSoon ==
    LET n == Cardinality(RdScheduled) + 1
        kept == IF rdCb # 0 THEN CancelTimer(rdTimers, rdCb) ELSE rdTimers
    IN  /\ rdTimers' = (n :> (rdNow + RefetchDelay)) @@ kept
        /\ rdCb' = n
        /\ rdLog' = Append(rdLog, [what |-> "scheduled", timer |-> n, at |-> rdNow])

\* _on_ws_data with a rain_delay event (lines 271-290); delay is the value
\* of its delay key, None when it has none
RainDelayEvent(delay) ==
    /\ Cardinality(RdScheduled) < MaxRainEvents
    /\ IF delay # NoneVal
          THEN UpdateDeviceSoon
          ELSE UNCHANGED <<rdTimers, rdCb, rdLog>>
    /\ UNCHANGED <<rdNow, rdRefetching>>

\* a timer falls due: _update_device (lines 300-302) begins and awaits
\* _refetch_device(force_update=True)
UpdateDeviceBegins(n) ==
    /\ n \in DOMAIN rdTimers
    /\ rdTimers[n] <= rdNow
    /\ rdTimers' = CancelTimer(rdTimers, n)
    /\ rdRefetching' = rdRefetching \cup {n}
    /\ rdLog' = Append(rdLog, [what |-> "refetch", timer |-> n, at |-> rdNow])
    /\ UNCHANGED <<rdNow, rdCb>>

\* get_device answers: _refetch_device (__init__.py lines 251-264) calls
\* _setup(device), whose line 268 sets _update_device_cb = None; with no
\* device or a BHyveError _setup is not called
UpdateDeviceEnds(n, found) ==
    /\ n \in rdRefetching
    /\ rdRefetching' = rdRefetching \ {n}
    /\ rdCb' = IF found THEN 0 ELSE rdCb
    /\ rdLog' = Append(rdLog, [what |-> IF found THEN "setup" ELSE "failed",
                               timer |-> n, at |-> rdNow])
    /\ UNCHANGED <<rdNow, rdTimers>>

\* a second passes, once every timer that is due has fired
RdTick ==
    /\ rdNow < MaxRainEvents + 1
    /\ \A n \in DOMAIN rdTimers : rdTimers[n] > rdNow
    /\ rdNow' = rdNow + 1
    /\ UNCHANGED <<rdCb, rdTimers, rdRefetching, rdLog>>

FrameRd ==
    UNCHANGED <<wsVars, coordVars, sensorVars, valveVars, switchVars, flowVars, utilVars,
                thrVars, cliVars, entVars, zvVars>>

NextRd ==
    \/ \E delay \in {NoneVal, NumVal(0), NumVal(24)} : RainDelayEvent(delay) /\ FrameRd
    \/ \E n \in 1..MaxRainEvents : UpdateDeviceBegins(n) /\ FrameRd
    \/ \E n \in 1..MaxRainEvents, found \in BOOLEAN : UpdateDeviceEnds(n, found) /\ FrameRd
    \/ RdTick /\ FrameRd

SpecRd == InitAll /\ [][NextRd]_vars

\* the timer scheduled last before entry i of the log
LatestScheduled(i) ==
    Cardinality({j \in RdScheduled : j < i})

\* C37: at most one delayed refetch is pending at any time; each
\* rain_delay event with a delay cancels the pending one and schedules one
\* 1 s later, so every refetch that begins is that of the event that came
\* last, also when an event arrives while a refetch is in progress
C37_RefetchDebounced ==
    /\ Cardinality(DOMAIN rdTimers) <= 1
    /\ \A n \in DOMAIN rdTimers : rdTimers[n] <= rdNow + RefetchDelay
    /\ \A i \in 1..Len(rdLog) :
          rdLog[i].what = "refetch" => rdLog[i].timer = LatestScheduled(i)

\* what holds as long as no refetch has ended in _setup: the one pending
\* timer is the one _update_device_cb holds
C37_DebouncedUntilSetup ==
    (\A i \in 1..Len(rdLog) : rdLog[i].what # "setup") =>
        /\ C37_RefetchDebounced
        /\ DOMAIN rdTimers \subseteq {rdCb}

\* ---------------------------------------------------------------------
\* pybhyve/websocket.py: the heartbeat timer and the ping tasks
\* ---------------------------------------------------------------------

\* a ping task runs: _ping calls send_str (line 55)
PingRuns == pingTasks' < pingTasks

C38_PingFramesOnOpenConnections ==
    [][/\ (hbTimer = 0 /\ hbTimer' = -1 /\ ~IsOpen(ws)) => pingTasks' = pingTasks
       /\ \A c \in DOMAIN conns :
             (conns'[c].last = PingFrame /\ conns[c].last # PingFrame)
                => conns[c].open /\ c = ws
       /\ (PingRuns /\ ~IsOpen(ws)) => UNCHANGED <<conns, hbTimer>>]_vars

\* ---------------------------------------------------------------------
\* coordinator.py: what an event leaves alone
\* ---------------------------------------------------------------------

\* the device an event names, "" when it names none
DeviceOf(e) == IF "device_id" \in DOMAIN e THEN e["device_id"] ELSE ""

\* C39: a device event changes only the 'device' record of the device its
\* device_id names: every other device's records, every device's history
\* and landscapes and all programs are unchanged; a program event changes
\* only the program it names and no device
C39_EventsChangeOnlyWhatTheyName ==
    [][/\ DeviceEventStep =>
             /\ DOMAIN data' = DOMAIN data
             /\ data # EmptyDict =>
                   /\ data'["programs"] = data["programs"]
                   /\ DOMAIN data'["devices"] = DOMAIN data["devices"]
                   /\ \A x \in DOMAIN data["devices"] :
                         /\ data'["devices"][x].history = data["devices"][x].history
                         /\ data'["devices"][x].landscapes = data["devices"][x].landscapes
                         /\ x # DeviceOf(StepEvent)
                               => data'["devices"][x] = data["devices"][x]
       /\ ProgramEventStep =>
             /\ DOMAIN data' = DOMAIN data
             /\ data # EmptyDict =>
                   /\ data'["devices"] = data["devices"]
                   /\ DOMAIN data'["programs"] = DOMAIN data["programs"]
                   /\ \A q \in DOMAIN data["programs"] :
                         q # ProgramOf(StepEvent)
                            => data'["programs"][q] = data["programs"][q]]_vars

\* a change_mode event was merged into one of the two devices of a snapshot
\* that holds a fetched history and programs
C39_Witness ==
    /\ patchLog # <<>>
    /\ patchLog[Len(patchLog)].kind = "device"
    /\ OfKnownDevice(data, LatestEvent)
    /\ LatestEvent["event"] = EVENT_CHANGE_MODE
    /\ Cardinality(DOMAIN data["devices"]) = 2
    /\ \E x \in DOMAIN data["devices"] : data["devices"][x].history # <<>>
    /\ DOMAIN data["programs"] # {}

====
